---- MODULE Spec2Model ----
(***************************************************************************)
(* Model of the HCERT decoding pipeline and SHLink reference handling of   *)
(* gdhcn-helper/app.py.                                                    *)
(*                                                                         *)
(* Text is a sequence of one-character strings; the six hidden code points *)
(* and the three control characters are the tokens "NBSP", "ZWSP", "ZWNJ", *)
(* "ZWJ", "BOM", "WJ", "CR", "LF", "TAB".                                    *)
(* The characters quote, backslash and backtick are the tokens "DQUOTE",    *)
(* "BACKSLASH", "BACKTICK".  A byte string is a sequence of                 *)
(* integers in 0..255.  A Python value is a record [t, v]: t is the type    *)
(* ("null", "bool", "int", "text", "bytes", "list", "map", "tag"), v the    *)
(* content; a dict is the sequence of its <<key, value>> pairs in insertion *)
(* order and a cbor2.CBORTag is <<tag number, value>>.                      *)
(***************************************************************************)
EXTENDS Integers, Sequences, FiniteSets, TLC

\* pc, op, req, loc, resp, trace: the request the running thread handles;
\* parked: the request of the thread that waits; module_values: the values
\* bound at import, which every thread sees
VARIABLES pc, op, req, loc, resp, trace, parked, module_values

vars == <<pc, op, req, loc, resp, trace, parked, module_values>>

\* a step that reads and writes the running request's state only
RequestLocal == UNCHANGED <<parked, module_values>>

----------------------------------------------------------------------------
(* Characters and bytes *)

ASCII ==
  << " ", "!", "DQUOTE", "#", "$", "%", "&", "'", "(", ")", "*", "+", ",", "-", ".", "/",
     "0", "1", "2", "3", "4", "5", "6", "7", "8", "9", ":", ";", "<", "=", ">", "?",
     "@", "A", "B", "C", "D", "E", "F", "G", "H", "I", "J", "K", "L", "M", "N", "O",
     "P", "Q", "R", "S", "T", "U", "V", "W", "X", "Y", "Z", "[", "BACKSLASH", "]", "^", "_",
     "BACKTICK", "a", "b", "c", "d", "e", "f", "g", "h", "i", "j", "k", "l", "m", "n", "o",
     "p", "q", "r", "s", "t", "u", "v", "w", "x", "y", "z", "{", "|", "}", "~" >>

\* ASCII holds the printable ASCII characters, code points 32..126
Ord(c) == 31 + (CHOOSE i \in 1..Len(ASCII) : ASCII[i] = c)

Chr(n) == ASCII[n - 31]

IsAsciiByte(b) == b >= 32 /\ b <= 126

StartsWith(s, p) == Len(s) >= Len(p) /\ SubSeq(s, 1, Len(p)) = p

Drop(s, n) == SubSeq(s, n + 1, Len(s))

\* str.encode('utf-8') of ASCII text
Utf8Encode(s) == [i \in 1..Len(s) |-> Ord(s[i])]

----------------------------------------------------------------------------
(* Python values *)

PyNull == [t |-> "null", v |-> <<>>]
PyBool(b) == [t |-> "bool", v |-> b]
PyInt(n) == [t |-> "int", v |-> n]
PyText(s) == [t |-> "text", v |-> s]
PyBytes(b) == [t |-> "bytes", v |-> b]
PyList(l) == [t |-> "list", v |-> l]
PyMap(m) == [t |-> "map", v |-> m]
PyTag(n, x) == [t |-> "tag", v |-> <<n, x>>]

EmptyDict == PyMap(<<>>)

\* truth value testing: None, False, 0 and empty str/bytes/list/dict are false
Truthy(x) ==
  CASE x.t = "null" -> FALSE
    [] x.t = "bool" -> x.v
    [] x.t = "int" -> x.v # 0
    [] x.t \in {"text", "bytes", "list", "map"} -> Len(x.v) > 0
    [] OTHER -> TRUE

\* a or b
PyOr(a, b) == IF Truthy(a) THEN a ELSE b

IsDict(x) == x.t = "map"

\* key in d
HasKey(d, k) == \E i \in 1..Len(d.v) : d.v[i][1] = k

\* d.get(k): the value under k, None when absent
DictGet(d, k) ==
  IF HasKey(d, k)
  THEN d.v[CHOOSE i \in 1..Len(d.v) : d.v[i][1] = k][2]
  ELSE PyNull

\* d[k] = x, keeping the insertion order of the keys
DictPut(d, k, x) ==
  IF HasKey(d, k)
  THEN PyMap([i \in 1..Len(d.v) |-> IF d.v[i][1] = k THEN <<k, x>> ELSE d.v[i]])
  ELSE PyMap(Append(d.v, <<k, x>>))

----------------------------------------------------------------------------
(* UTF-8 (bytes.decode) *)

\* the control characters, code points 0..31
CTRL ==
  << "NUL", "SOH", "STX", "ETX", "EOT", "ENQ", "ACK", "BEL", "BS", "TAB", "LF",
     "VT", "FF", "CR", "SO", "SI", "DLE", "DC1", "DC2", "DC3", "DC4", "NAK",
     "SYN", "ETB", "CAN", "EM", "SUB", "ESC", "FS", "GS", "RS", "US" >>

\* chr(cp); "ACUTE" is the combining acute accent U+0301 and "E_ACUTE" the
\* letter U+00E9; a code point outside the modelled alphabet is "OTHER"
CharOf(cp) ==
  CASE cp < 32 -> CTRL[cp + 1]
    [] cp >= 32 /\ cp <= 126 -> Chr(cp)
    [] cp = 127 -> "DEL"
    [] cp = 160 -> "NBSP"
    [] cp = 233 -> "E_ACUTE"
    [] cp = 769 -> "ACUTE"
    [] cp = 8203 -> "ZWSP"
    [] cp = 8204 -> "ZWNJ"
    [] cp = 8205 -> "ZWJ"
    [] cp = 8288 -> "WJ"
    [] cp = 65279 -> "BOM"
    [] OTHER -> "OTHER"

IsCont(b, i) == i <= Len(b) /\ b[i] >= 128 /\ b[i] <= 191

\* the length of the well-formed UTF-8 sequence at index i of b, 0 if there
\* is none
Utf8SeqLen(b, i) ==
  LET b1 == b[i]
      b2 == IF i < Len(b) THEN b[i + 1] ELSE 0
  IN CASE b1 < 128 -> 1
       [] b1 >= 194 /\ b1 <= 223 -> IF IsCont(b, i + 1) THEN 2 ELSE 0
       [] b1 >= 224 /\ b1 <= 239 ->
            IF /\ IsCont(b, i + 1) /\ IsCont(b, i + 2)
               /\ (b1 = 224 => b2 >= 160)
               /\ (b1 = 237 => b2 <= 159)
            THEN 3 ELSE 0
       [] b1 >= 240 /\ b1 <= 244 ->
            IF /\ IsCont(b, i + 1) /\ IsCont(b, i + 2) /\ IsCont(b, i + 3)
               /\ (b1 = 240 => b2 >= 144)
               /\ (b1 = 244 => b2 <= 143)
            THEN 4 ELSE 0
       [] OTHER -> 0

\* the code point of the well-formed sequence of n bytes at index i of b
Utf8CodePoint(b, i, n) ==
  CASE n = 1 -> b[i]
    [] n = 2 -> (b[i] - 192) * 64 + (b[i + 1] - 128)
    [] n = 3 -> (b[i] - 224) * 4096 + (b[i + 1] - 128) * 64 + (b[i + 2] - 128)
    [] OTHER -> (b[i] - 240) * 262144 + (b[i + 1] - 128) * 4096
                  + (b[i + 2] - 128) * 64 + (b[i + 3] - 128)

IsContByte(x) == x >= 128 /\ x <= 191

\* the indices of b at which a UTF-8 sequence starts
Utf8Starts(b) == SelectSeq([i \in 1..Len(b) |-> i], LAMBDA i : ~IsContByte(b[i]))

\* b.decode('utf-8') succeeds: at every byte that is no continuation byte a
\* well-formed sequence starts, and every continuation byte belongs to the
\* sequence that starts at the nearest such byte before it
Utf8Valid(b) ==
  /\ \A i \in 1..Len(b) : ~IsContByte(b[i]) => Utf8SeqLen(b, i) > 0
  /\ \A j \in 1..Len(b) :
       IsContByte(b[j]) =>
         \E i \in 1..(j - 1) :
           /\ ~IsContByte(b[i])
           /\ \A k \in (i + 1)..j : IsContByte(b[k])
           /\ j < i + Utf8SeqLen(b, i)

\* b.decode('utf-8') of valid UTF-8
Utf8Decode(b) ==
  LET starts == Utf8Starts(b)
  IN [k \in 1..Len(starts) |->
        CharOf(Utf8CodePoint(b, starts[k], Utf8SeqLen(b, starts[k])))]

----------------------------------------------------------------------------
(* Base45 (the base45 package) *)

BASE45_ALPHABET ==
  << "0", "1", "2", "3", "4", "5", "6", "7", "8", "9", "A", "B", "C", "D", "E",
     "F", "G", "H", "I", "J", "K", "L", "M", "N", "O", "P", "Q", "R", "S", "T",
     "U", "V", "W", "X", "Y", "Z", " ", "$", "%", "*", "+", "-", ".", "/", ":" >>

InBase45Alphabet(c) == \E i \in 1..Len(BASE45_ALPHABET) : BASE45_ALPHABET[i] = c

B45Value(c) == (CHOOSE i \in 1..Len(BASE45_ALPHABET) : BASE45_ALPHABET[i] = c) - 1

B45Char(n) == BASE45_ALPHABET[n + 1]

RECURSIVE B45Groups(_)
\* the bytes of the groups of three (two bytes) and of a final pair (one byte);
\* <<-1>> marks a group whose value does not fit
B45Groups(buf) ==
  IF buf = <<>> THEN <<>>
  ELSE IF Len(buf) >= 3
  THEN LET x == buf[1] + buf[2] * 45 + buf[3] * 45 * 45
       IN IF x > 65535 THEN <<-1>>
          ELSE <<x \div 256, x % 256>> \o B45Groups(Drop(buf, 3))
  ELSE LET x == buf[1] + buf[2] * 45
       IN IF x > 255 THEN <<-1>> ELSE <<x>>

\* base45.b45decode: [ok, v]; ok is FALSE where the library raises ValueError
b45decode(s) ==
  IF \E i \in 1..Len(s) : ~InBase45Alphabet(s[i]) THEN [ok |-> FALSE, v |-> <<>>]
  ELSE IF Len(s) % 3 = 1 THEN [ok |-> FALSE, v |-> <<>>]
  ELSE LET res == B45Groups([i \in 1..Len(s) |-> B45Value(s[i])])
       IN IF \E i \in 1..Len(res) : res[i] = -1
          THEN [ok |-> FALSE, v |-> <<>>]
          ELSE [ok |-> TRUE, v |-> res]

RECURSIVE b45encode(_)
\* base45.b45encode, used to build the requests
b45encode(b) ==
  IF b = <<>> THEN <<>>
  ELSE IF Len(b) >= 2
  THEN LET x == b[1] * 256 + b[2]
       IN <<B45Char(x % 45), B45Char((x \div 45) % 45), B45Char(x \div 2025)>>
            \o b45encode(Drop(b, 2))
  ELSE <<B45Char(b[1] % 45), B45Char(b[1] \div 45)>>

----------------------------------------------------------------------------
(* zlib (the zlib module), for streams of stored deflate blocks *)

RECURSIVE AdlerStep(_, _, _)
\* the two 16-bit sums <<a, b>> of the Adler-32 check value b * 65536 + a
AdlerStep(data, a, b) ==
  IF data = <<>> THEN <<a, b>>
  ELSE LET a2 == (a + Head(data)) % 65521
       IN AdlerStep(Tail(data), a2, (b + a2) % 65521)

\* the check value as the four big-endian bytes that end a zlib stream
Adler32(data) ==
  LET s == AdlerStep(data, 1, 0)
  IN <<s[2] \div 256, s[2] % 256, s[1] \div 256, s[1] % 256>>

InflateFail == [ok |-> FALSE, v |-> <<>>, rest |-> <<>>]

RECURSIVE InflateStored(_)
\* the deflate blocks from b on: [ok, v, rest].  A block of type 3 is invalid;
\* the compressed block types 1 and 2 are outside this model and no request
\* holds one.
InflateStored(b) ==
  IF Len(b) < 5 \/ (b[1] \div 2) % 4 # 0 THEN InflateFail
  ELSE LET len == b[2] + 256 * b[3]
           nlen == b[4] + 256 * b[5]
       IN IF nlen # 65535 - len \/ Len(b) < 5 + len THEN InflateFail
          ELSE IF b[1] % 2 = 1
          THEN [ok |-> TRUE, v |-> SubSeq(b, 6, 5 + len), rest |-> Drop(b, 5 + len)]
          ELSE LET r == InflateStored(Drop(b, 5 + len))
               IN IF r.ok
                  THEN [ok |-> TRUE, v |-> SubSeq(b, 6, 5 + len) \o r.v, rest |-> r.rest]
                  ELSE InflateFail

\* zlib.decompress: [ok, v]; ok is FALSE where it raises zlib.error (bad
\* header, truncated stream, wrong Adler-32 check value)
zlib_decompress(b) ==
  IF Len(b) < 2 THEN [ok |-> FALSE, v |-> <<>>]
  ELSE IF \/ b[1] % 16 # 8
          \/ b[1] \div 16 > 7
          \/ (b[1] * 256 + b[2]) % 31 # 0
          \/ (b[2] \div 32) % 2 = 1
  THEN [ok |-> FALSE, v |-> <<>>]
  ELSE LET r == InflateStored(Drop(b, 2))
       IN IF r.ok /\ Len(r.rest) >= 4 /\ SubSeq(r.rest, 1, 4) = Adler32(r.v)
          THEN [ok |-> TRUE, v |-> r.v]
          ELSE [ok |-> FALSE, v |-> <<>>]

\* a zlib stream of one stored block, used to build the requests
ZlibStore(data) ==
  <<120, 1, 1, Len(data) % 256, Len(data) \div 256,
    255 - (Len(data) % 256), 255 - (Len(data) \div 256)>>
    \o data \o Adler32(data)

----------------------------------------------------------------------------
(* CBOR (the cbor2 package): definite-length items with arguments of up to *)
(* two bytes, ASCII text, and tag numbers cbor2 has no semantic decoder    *)
(* for, which it delivers as CBORTag objects                               *)

CborFail == [ok |-> FALSE, v |-> PyNull, n |-> 0]

\* the argument of the item starting at p: [ok, arg, n], n the next position
CborArg(b, p) ==
  LET ai == b[p] % 32
  IN IF ai < 24 THEN [ok |-> TRUE, arg |-> ai, n |-> p + 1]
     ELSE IF ai = 24 /\ p + 1 <= Len(b) THEN [ok |-> TRUE, arg |-> b[p + 1], n |-> p + 2]
     ELSE IF ai = 25 /\ p + 2 <= Len(b)
     THEN [ok |-> TRUE, arg |-> b[p + 1] * 256 + b[p + 2], n |-> p + 3]
     ELSE [ok |-> FALSE, arg |-> 0, n |-> 0]

RECURSIVE CborItem(_, _), CborItems(_, _, _, _), CborPairs(_, _, _, _)
\* the data item starting at position p: [ok, v, n]
CborItem(b, p) ==
  IF p > Len(b) THEN CborFail
  ELSE LET mt == b[p] \div 32
           a == CborArg(b, p)
       IN IF mt = 7
          THEN CASE b[p] = 244 -> [ok |-> TRUE, v |-> PyBool(FALSE), n |-> p + 1]
                 [] b[p] = 245 -> [ok |-> TRUE, v |-> PyBool(TRUE), n |-> p + 1]
                 [] b[p] = 246 -> [ok |-> TRUE, v |-> PyNull, n |-> p + 1]
                 [] OTHER -> CborFail
          ELSE IF ~a.ok THEN CborFail
          ELSE CASE mt = 0 -> [ok |-> TRUE, v |-> PyInt(a.arg), n |-> a.n]
                 [] mt = 1 -> [ok |-> TRUE, v |-> PyInt(-1 - a.arg), n |-> a.n]
                 [] mt = 2 ->
                      IF a.n + a.arg - 1 > Len(b) THEN CborFail
                      ELSE [ok |-> TRUE, v |-> PyBytes(SubSeq(b, a.n, a.n + a.arg - 1)),
                            n |-> a.n + a.arg]
                 [] mt = 3 ->
                      IF a.n + a.arg - 1 > Len(b) \/ ~Utf8Valid(SubSeq(b, a.n, a.n + a.arg - 1))
                      THEN CborFail
                      ELSE [ok |-> TRUE,
                            v |-> PyText(Utf8Decode(SubSeq(b, a.n, a.n + a.arg - 1))),
                            n |-> a.n + a.arg]
                 [] mt = 4 -> CborItems(b, a.n, a.arg, <<>>)
                 [] mt = 5 -> CborPairs(b, a.n, a.arg, EmptyDict)
                 [] OTHER ->
                      LET r == CborItem(b, a.n)
                      IN IF r.ok THEN [ok |-> TRUE, v |-> PyTag(a.arg, r.v), n |-> r.n]
                         ELSE CborFail

\* k more array elements from position p on, after the elements acc
CborItems(b, p, k, acc) ==
  IF k = 0 THEN [ok |-> TRUE, v |-> PyList(acc), n |-> p]
  ELSE LET r == CborItem(b, p)
       IN IF r.ok THEN CborItems(b, r.n, k - 1, Append(acc, r.v)) ELSE CborFail

\* k more key/value pairs from position p on, added to the dict acc
CborPairs(b, p, k, acc) ==
  IF k = 0 THEN [ok |-> TRUE, v |-> acc, n |-> p]
  ELSE LET key == CborItem(b, p)
       IN IF ~key.ok THEN CborFail
          ELSE LET val == CborItem(b, key.n)
               IN IF val.ok THEN CborPairs(b, val.n, k - 1, DictPut(acc, key.v, val.v))
                  ELSE CborFail

\* cbor2.loads on a Python value: [ok, v].  It raises on anything but a byte
\* string, on an empty or malformed one, and ignores what follows the first item.
cbor2_loads(x) ==
  IF x.t # "bytes" THEN [ok |-> FALSE, v |-> PyNull]
  ELSE LET r == CborItem(x.v, 1) IN [ok |-> r.ok, v |-> r.v]

CborHead(mt, n) ==
  IF n < 24 THEN <<mt * 32 + n>>
  ELSE IF n < 256 THEN <<mt * 32 + 24, n>>
  ELSE <<mt * 32 + 25, n \div 256, n % 256>>

RECURSIVE CborEnc(_), CborEncSeq(_), CborEncPairs(_)
\* cbor2.dumps, used to build the requests
CborEnc(x) ==
  CASE x.t = "null" -> <<246>>
    [] x.t = "bool" -> IF x.v THEN <<245>> ELSE <<244>>
    [] x.t = "int" -> IF x.v >= 0 THEN CborHead(0, x.v) ELSE CborHead(1, -1 - x.v)
    [] x.t = "bytes" -> CborHead(2, Len(x.v)) \o x.v
    [] x.t = "text" -> CborHead(3, Len(x.v)) \o Utf8Encode(x.v)
    [] x.t = "list" -> CborHead(4, Len(x.v)) \o CborEncSeq(x.v)
    [] x.t = "map" -> CborHead(5, Len(x.v)) \o CborEncPairs(x.v)
    [] OTHER -> CborHead(6, x.v[1]) \o CborEnc(x.v[2])

CborEncSeq(s) == IF s = <<>> THEN <<>> ELSE CborEnc(Head(s)) \o CborEncSeq(Tail(s))

CborEncPairs(s) ==
  IF s = <<>> THEN <<>>
  ELSE CborEnc(Head(s)[1]) \o CborEnc(Head(s)[2]) \o CborEncPairs(Tail(s))

----------------------------------------------------------------------------
(* base64 (the base64 module) *)

B64URL_ALPHABET ==
  << "A", "B", "C", "D", "E", "F", "G", "H", "I", "J", "K", "L", "M", "N", "O", "P",
     "Q", "R", "S", "T", "U", "V", "W", "X", "Y", "Z", "a", "b", "c", "d", "e", "f",
     "g", "h", "i", "j", "k", "l", "m", "n", "o", "p", "q", "r", "s", "t", "u", "v",
     "w", "x", "y", "z", "0", "1", "2", "3", "4", "5", "6", "7", "8", "9", "-", "_" >>

B64Char(n) == B64URL_ALPHABET[n + 1]

RECURSIVE urlsafe_b64encode(_)
\* base64.urlsafe_b64encode(b).decode('ascii'): four characters per three
\* bytes, the last group padded with '='
urlsafe_b64encode(b) ==
  IF b = <<>> THEN <<>>
  ELSE IF Len(b) >= 3
  THEN LET n == b[1] * 65536 + b[2] * 256 + b[3]
       IN <<B64Char(n \div 262144), B64Char((n \div 4096) % 64),
            B64Char((n \div 64) % 64), B64Char(n % 64)>>
            \o urlsafe_b64encode(Drop(b, 3))
  ELSE IF Len(b) = 2
  THEN LET n == b[1] * 65536 + b[2] * 256
       IN <<B64Char(n \div 262144), B64Char((n \div 4096) % 64),
            B64Char((n \div 64) % 64), "=">>
  ELSE <<B64Char(b[1] \div 4), B64Char((b[1] % 4) * 16), "=", "=">>

RECURSIVE rstrip(_, _)
\* s.rstrip(c)
rstrip(s, c) ==
  IF s # <<>> /\ s[Len(s)] = c THEN rstrip(SubSeq(s, 1, Len(s) - 1), c) ELSE s

\* base64.urlsafe_b64encode(b).decode('ascii').rstrip('=')
B64UrlNoPad(b) == rstrip(urlsafe_b64encode(b), "=")

\* the characters str.encode('ascii') accepts
IsAsciiChar(c) ==
  \/ \E i \in 1..Len(ASCII) : ASCII[i] = c
  \/ \E i \in 1..Len(CTRL) : CTRL[i] = c
  \/ c = "DEL"

\* the six-bit value of a character after '-' and '_' are translated to '+'
\* and '/'; -1 for a character outside the alphabet
B64Value(c) ==
  CASE \E i \in 1..Len(B64URL_ALPHABET) : B64URL_ALPHABET[i] = c ->
         (CHOOSE i \in 1..Len(B64URL_ALPHABET) : B64URL_ALPHABET[i] = c) - 1
    [] c = "+" -> 62
    [] c = "/" -> 63
    [] OTHER -> -1

B64Fail == [ok |-> FALSE, v |-> <<>>]

\* the index of the '=' at which the loop of binascii.a2b_base64 (without
\* strict mode) stops reading, 0 if there is none: the first '=' that, with
\* the '=' since the last data character, completes a quad of which at
\* least two characters are data
B64StopIndex(s) ==
  LET IsData(i) == B64Value(s[i]) >= 0
      quad_pos(i) == Cardinality({k \in 1..(i - 1) : IsData(k)}) % 4
      pads(i) ==
        Cardinality({k \in 1..(i - 1) :
                       s[k] = "=" /\ \A m \in (k + 1)..(i - 1) : ~IsData(m)})
      StopsAt(i, q) == s[i] = "=" /\ q >= 2 /\ q + pads(i) + 1 >= 4
      First(stops) ==
        IF stops = {} THEN 0 ELSE CHOOSE i \in stops : \A k \in stops : i <= k
  IN First({i \in 1..Len(s) : StopsAt(i, quad_pos(i))})

\* binascii.a2b_base64(s): characters outside the alphabet are skipped, the
\* six-bit values read before the stop are joined into bytes, and an
\* incomplete quad at the end of the input is binascii.Error
a2b_base64(s) ==
  LET Byte(vals, j) ==
        LET At4(k) ==
              CASE (j - 1) % 3 = 0 -> vals[k] * 4 + vals[k + 1] \div 16
                [] (j - 1) % 3 = 1 -> (vals[k] % 16) * 16 + vals[k + 1] \div 4
                [] OTHER -> (vals[k] % 4) * 64 + vals[k + 1]
        IN At4(4 * ((j - 1) \div 3) + ((j - 1) % 3) + 1)
      Bytes(vals, n) == [ok |-> TRUE, v |-> [j \in 1..n |-> Byte(vals, j)]]
      Join(vals, stopped) ==
        IF ~stopped /\ Len(vals) % 4 # 0 THEN B64Fail
        ELSE Bytes(vals, 3 * (Len(vals) \div 4)
                           + (IF Len(vals) % 4 = 0 THEN 0 ELSE (Len(vals) % 4) - 1))
      Values(read) ==
        SelectSeq([i \in 1..Len(read) |-> B64Value(read[i])], LAMBDA x : x >= 0)
      Read(stop) ==
        Join(Values(IF stop = 0 THEN s ELSE SubSeq(s, 1, stop - 1)), stop # 0)
  IN Read(B64StopIndex(s))

\* base64.urlsafe_b64decode(s) of a str: [ok, v]; not ok is ValueError for a
\* non-ASCII character or binascii.Error
urlsafe_b64decode(s) ==
  IF \E i \in 1..Len(s) : ~IsAsciiChar(s[i]) THEN B64Fail
  ELSE a2b_base64(s)

\* faulty variant: one '=' whatever the length
PadB64_OnePad(s) == Append(s, "=")

\* s + '=' * (4 - len(s) % 4)
PadB64(s) == s \o [i \in 1..(4 - (Len(s) % 4)) |-> "="]

----------------------------------------------------------------------------
(* JSON (json.loads) *)
(* Objects, arrays, strings without escape sequences, integers and the     *)
(* literals true, false and null are parsed; fractions, exponents, escape  *)
(* sequences, NaN and Infinity, and UTF-16/32 input are outside the model  *)
(* and appear in no request.                                               *)

JsonFail == [ok |-> FALSE, v |-> PyNull, n |-> 0]

JsonOk(x, n) == [ok |-> TRUE, v |-> x, n |-> n]

IsDigit(c) == c \in {"0", "1", "2", "3", "4", "5", "6", "7", "8", "9"}

At(s, i) == IF i <= Len(s) THEN s[i] ELSE "END"

RECURSIVE JsonWs(_, _)
\* the index of the first character from i on that is not white space
JsonWs(s, i) ==
  IF At(s, i) \in {" ", "TAB", "LF", "CR"} THEN JsonWs(s, i + 1) ELSE i

RECURSIVE JsonDigits(_, _)
\* the index after the run of digits that starts at i
JsonDigits(s, i) == IF IsDigit(At(s, i)) THEN JsonDigits(s, i + 1) ELSE i

RECURSIVE JsonNat(_, _, _)
\* the number written by the digits s[i..j]
JsonNat(s, i, j) ==
  IF j < i THEN 0 ELSE JsonNat(s, i, j - 1) * 10 + (Ord(s[j]) - 48)

\* an integer at i: '-'? ('0' | [1-9][0-9]*)
JsonNumber(s, i) ==
  LET Number(d, e) ==
        IF e = d THEN JsonFail
        ELSE JsonOk(PyInt(IF d > i THEN 0 - JsonNat(s, d, e - 1)
                          ELSE JsonNat(s, d, e - 1)), e)
      Digits(d) == Number(d, IF At(s, d) = "0" THEN d + 1 ELSE JsonDigits(s, d))
  IN Digits(IF At(s, i) = "-" THEN i + 1 ELSE i)

RECURSIVE JsonStringEnd(_, _)
\* the index of the closing quote of the string whose content starts at i,
\* 0 when the string is not terminated or holds a control character
JsonStringEnd(s, i) ==
  IF i > Len(s) THEN 0
  ELSE IF s[i] = "DQUOTE" THEN i
  ELSE IF s[i] = "BACKSLASH" \/ (\E k \in 1..Len(CTRL) : CTRL[k] = s[i]) THEN 0
  ELSE JsonStringEnd(s, i + 1)

\* a string at i, where s[i] is the opening quote
JsonString(s, i) ==
  LET String(e) ==
        IF e = 0 THEN JsonFail ELSE JsonOk(PyText(SubSeq(s, i + 1, e - 1)), e + 1)
  IN String(JsonStringEnd(s, i + 1))

JsonLiteral(s, i, word, x) ==
  IF i + Len(word) - 1 <= Len(s) /\ SubSeq(s, i, i + Len(word) - 1) = word
  THEN JsonOk(x, i + Len(word)) ELSE JsonFail

RECURSIVE JsonValue(_, _), JsonMembers(_, _, _), JsonElements(_, _, _)
\* the value that starts at index i: [ok, v, n] with n the index after it
JsonValue(s, i) ==
  LET Object(j) ==
        IF At(s, j) = "}" THEN JsonOk(EmptyDict, j + 1)
        ELSE JsonMembers(s, j, EmptyDict)
      Array(j) ==
        IF At(s, j) = "]" THEN JsonOk(PyList(<<>>), j + 1)
        ELSE JsonElements(s, j, <<>>)
      Value(c) ==
        CASE c = "DQUOTE" -> JsonString(s, i)
          [] c = "{" -> Object(JsonWs(s, i + 1))
          [] c = "[" -> Array(JsonWs(s, i + 1))
          [] c = "n" -> JsonLiteral(s, i, <<"n", "u", "l", "l">>, PyNull)
          [] c = "t" -> JsonLiteral(s, i, <<"t", "r", "u", "e">>, PyBool(TRUE))
          [] c = "f" -> JsonLiteral(s, i, <<"f", "a", "l", "s", "e">>, PyBool(FALSE))
          [] OTHER -> JsonNumber(s, i)
  IN Value(At(s, i))

\* the members of an object from the key at index i on, acc the pairs so far
JsonMembers(s, i, acc) ==
  LET Next_(members, e) ==
        IF At(s, e) = "}" THEN JsonOk(members, e + 1)
        ELSE IF At(s, e) = "," THEN JsonMembers(s, JsonWs(s, e + 1), members)
        ELSE JsonFail
      Member(k, x) ==
        IF ~x.ok THEN JsonFail ELSE Next_(DictPut(acc, k.v, x.v), JsonWs(s, x.n))
      Colon(k, c) ==
        IF ~k.ok \/ At(s, c) # ":" THEN JsonFail
        ELSE Member(k, JsonValue(s, JsonWs(s, c + 1)))
      Key(k) == Colon(k, JsonWs(s, k.n))
  IN IF At(s, i) # "DQUOTE" THEN JsonFail ELSE Key(JsonString(s, i))

\* the elements of an array from the value at index i on
JsonElements(s, i, acc) ==
  LET Next_(elements, e) ==
        IF At(s, e) = "]" THEN JsonOk(PyList(elements), e + 1)
        ELSE IF At(s, e) = "," THEN JsonElements(s, JsonWs(s, e + 1), elements)
        ELSE JsonFail
      Element(x) ==
        IF ~x.ok THEN JsonFail ELSE Next_(Append(acc, x.v), JsonWs(s, x.n))
  IN Element(JsonValue(s, i))

\* json.loads(b) of bytes: [ok, v]; not ok is UnicodeDecodeError or
\* json.JSONDecodeError
json_loads(b) ==
  LET Loaded(s, x) ==
        IF x.ok /\ JsonWs(s, x.n) > Len(s) THEN [ok |-> TRUE, v |-> x.v]
        ELSE [ok |-> FALSE, v |-> PyNull]
      Load(s) == Loaded(s, JsonValue(s, JsonWs(s, 1)))
  IN IF ~Utf8Valid(b) THEN [ok |-> FALSE, v |-> PyNull] ELSE Load(Utf8Decode(b))

----------------------------------------------------------------------------
(* Text normalization and Base45 sanitizing *)

\* unicodedata.normalize('NFKC', c) of one character: the no-break space has
\* the compatibility decomposition U+0020; the other characters of the model
\* are their own normal form
NfkcChar(c) == IF c = "NBSP" THEN " " ELSE c

\* canonical composition: the letter e directly followed by the combining
\* acute accent is U+00E9.  No text of the model holds the accent after
\* another letter that composes.
NfkcCompose(text) ==
  LET composed == [i \in 1..Len(text) |->
                     IF text[i] = "e" /\ i < Len(text) /\ text[i + 1] = "ACUTE"
                     THEN "E_ACUTE"
                     ELSE IF text[i] = "ACUTE" /\ i > 1 /\ text[i - 1] = "e"
                     THEN "COMPOSED"
                     ELSE text[i]]
  IN SelectSeq(composed, LAMBDA c : c # "COMPOSED")

\* unicodedata.normalize('NFKC', text)
NFKC(text) == NfkcCompose([i \in 1..Len(text) |-> NfkcChar(text[i])])

hidden_chars == <<"NBSP", "ZWSP", "ZWNJ", "ZWJ", "BOM", "WJ">>

\* f'U+{ord(char):04X}' and unicodedata.name(char) of the hidden characters
HiddenRecord(c) ==
  CASE c = "NBSP" -> [char |-> "U+00A0", name |-> "NO-BREAK SPACE"]
    [] c = "ZWSP" -> [char |-> "U+200B", name |-> "ZERO WIDTH SPACE"]
    [] c = "ZWNJ" -> [char |-> "U+200C", name |-> "ZERO WIDTH NON-JOINER"]
    [] c = "ZWJ" -> [char |-> "U+200D", name |-> "ZERO WIDTH JOINER"]
    [] c = "BOM" -> [char |-> "U+FEFF", name |-> "ZERO WIDTH NO-BREAK SPACE"]
    [] OTHER -> [char |-> "U+2060", name |-> "WORD JOINER"]

Contains(text, c) == \E i \in 1..Len(text) : text[i] = c

\* text.replace(c, '') for every c in cs
RemoveAll(text, cs) == SelectSeq(text, LAMBDA x : x \notin cs)

RECURSIVE RemoveHidden(_, _, _)
\* the loop over hidden_chars from index k on: [text, removed]
RemoveHidden(text, removed, k) ==
  IF k > Len(hidden_chars) THEN [text |-> text, removed |-> removed]
  ELSE IF Contains(text, hidden_chars[k])
  THEN RemoveHidden(RemoveAll(text, {hidden_chars[k]}),
                    Append(removed, HiddenRecord(hidden_chars[k])), k + 1)
  ELSE RemoveHidden(text, removed, k + 1)

\* normalize_text: [text, removed]
normalize_text(text) ==
  LET r == RemoveHidden(NFKC(text), <<>>, 1)
  IN [text |-> RemoveAll(r.text, {"CR", "LF", "TAB"}), removed |-> r.removed]

\* ord(char)
CodePoint(c) ==
  CASE c = "NBSP" -> 160
    [] c = "ZWSP" -> 8203
    [] c = "ZWNJ" -> 8204
    [] c = "ZWJ" -> 8205
    [] c = "BOM" -> 65279
    [] c = "WJ" -> 8288
    [] c = "TAB" -> 9
    [] c = "LF" -> 10
    [] c = "CR" -> 13
    [] OTHER -> Ord(c)

RECURSIVE SanitizeFrom(_, _)
\* the invalid_chars records of text from index i (counted from 1) on
SanitizeFrom(text, i) ==
  IF i > Len(text) THEN <<>>
  ELSE IF InBase45Alphabet(text[i]) THEN SanitizeFrom(text, i + 1)
  ELSE <<[index |-> i - 1, char |-> text[i], unicode |-> CodePoint(text[i])]>>
         \o SanitizeFrom(text, i + 1)

\* faulty variant: a character outside the alphabet ends the scan
sanitize_base45_StopAtInvalid(text) ==
  LET bad == {i \in 1..Len(text) : ~InBase45Alphabet(text[i])}
      stop == IF bad = {} THEN Len(text) + 1 ELSE CHOOSE i \in bad : \A k \in bad : i <= k
  IN [text |-> SubSeq(text, 1, stop - 1),
      invalid |-> SanitizeFrom(SubSeq(text, 1, IF stop > Len(text) THEN Len(text) ELSE stop), 1)]

\* sanitize_base45: [text, invalid]
sanitize_base45(text) ==
  [text |-> SelectSeq(text, InBase45Alphabet), invalid |-> SanitizeFrom(text, 1)]

----------------------------------------------------------------------------
(* COSE_Sign1 decoding and claim extraction *)

\* faulty variant: one layer of tags is removed, not all of them
unwrap_one_tag(data) == IF data.t = "tag" THEN data.v[2] ELSE data

RECURSIVE unwrap_cbor_tags(_)
unwrap_cbor_tags(data) ==
  IF data.t = "tag" THEN unwrap_cbor_tags(data.v[2]) ELSE data

NoCose ==
  [protected |-> PyNull, unprotected |-> PyNull, payload |-> PyNull, signature |-> PyNull]

\* the 'signature' entry: [ok, v]; b64encode raises on anything but bytes
CoseSignature(signature_bstr) ==
  IF ~Truthy(signature_bstr) THEN [ok |-> TRUE, v |-> PyNull]
  ELSE IF signature_bstr.t = "bytes"
  THEN [ok |-> TRUE, v |-> PyText(B64UrlNoPad(signature_bstr.v))]
  ELSE [ok |-> FALSE, v |-> PyNull]

\* faulty variant: the nested CBOR of a part is loaded even when the part is empty
CosePart_AlwaysLoads(bstr) == cbor2_loads(bstr)

\* a header or payload part: nested CBOR only if the part is truthy
CosePart(bstr) ==
  IF Truthy(bstr) THEN cbor2_loads(bstr) ELSE [ok |-> TRUE, v |-> EmptyDict]

\* the destructuring of the 4-element list and what follows it
CoseFromList(cbor_data) ==
  LET protected_headers == CosePart(cbor_data.v[1])
      payload == CosePart(cbor_data.v[3])
      signature == CoseSignature(cbor_data.v[4])
  IN IF protected_headers.ok /\ payload.ok /\ signature.ok
     THEN [ok |-> TRUE,
           v |-> [protected |-> protected_headers.v,
                  unprotected |-> PyOr(cbor_data.v[2], EmptyDict),
                  payload |-> payload.v,
                  signature |-> signature.v]]
     ELSE [ok |-> FALSE, v |-> NoCose]

\* faulty variant: a list of more than 4 elements passes the shape test
IsCoseList_AtLeast4(cbor_data) == cbor_data.t = "list" /\ Len(cbor_data.v) >= 4

\* the shape test of decode_cose_sign1
IsCoseList(cbor_data) == cbor_data.t = "list" /\ Len(cbor_data.v) = 4

\* decode_cose_sign1 on an already loaded CBOR value
CoseFromValue(top) ==
  LET cbor_data == unwrap_cbor_tags(top)
  IN IF IsCoseList(cbor_data) THEN CoseFromList(cbor_data)
     ELSE [ok |-> FALSE, v |-> NoCose]

\* decode_cose_sign1: [ok, v]; ok is FALSE where it raises
decode_cose_sign1(data) ==
  LET top == cbor2_loads(PyBytes(data))
  IN IF top.ok THEN CoseFromValue(top.v) ELSE [ok |-> FALSE, v |-> NoCose]

Key4 == PyInt(4)
KeyStr4 == PyText(<<"4">>)
KeyB64 == PyText(<<"_", "b", "6", "4">>)

find_kid(hdrs) ==
  IF IsDict(hdrs) THEN PyOr(DictGet(hdrs, Key4), DictGet(hdrs, KeyStr4)) ELSE PyNull

\* extract_kid on the dict {'protected': ..., 'unprotected': ...}
extract_kid(cose_headers) ==
  LET kid == PyOr(find_kid(cose_headers.protected), find_kid(cose_headers.unprotected))
  IN IF kid.t = "bytes" THEN PyText(B64UrlNoPad(kid.v))
     ELSE IF IsDict(kid) /\ HasKey(kid, KeyB64) THEN DictGet(kid, KeyB64)
     ELSE IF kid.t = "text" THEN kid
     ELSE PyNull

KeyIss == PyText(<<"i", "s", "s">>)
Key1 == PyInt(1)
KeyStr1 == PyText(<<"1">>)

extract_issuer(payload) ==
  LET issuer == PyOr(PyOr(DictGet(payload, KeyIss), DictGet(payload, Key1)),
                     DictGet(payload, KeyStr1))
  IN IF issuer.t = "text" THEN issuer ELSE PyNull

RECURSIVE bytes_to_json_safe(_)
bytes_to_json_safe(obj) ==
  CASE obj.t = "bytes" -> PyMap(<< <<KeyB64, PyText(B64UrlNoPad(obj.v))>> >>)
    [] obj.t = "map" ->
         PyMap([i \in 1..Len(obj.v) |-> <<obj.v[i][1], bytes_to_json_safe(obj.v[i][2])>>])
    [] obj.t = "list" -> PyList([i \in 1..Len(obj.v) |-> bytes_to_json_safe(obj.v[i])])
    [] OTHER -> obj

RECURSIVE JsonSerializable(_)
\* jsonify raises TypeError on a byte string, a CBORTag object and a dict key
\* that is not a string or a number
JsonSerializable(x) ==
  CASE x.t \in {"bytes", "tag"} -> FALSE
    [] x.t = "list" -> \A i \in 1..Len(x.v) : JsonSerializable(x.v[i])
    [] x.t = "map" ->
         \A i \in 1..Len(x.v) :
           /\ x.v[i][1].t \in {"null", "bool", "int", "text"}
           /\ JsonSerializable(x.v[i][2])
    [] OTHER -> TRUE

----------------------------------------------------------------------------
(* Requests *)

\* deepest nesting of CBOR tags around a request's top-level value
MaxTagDepth == 2

\* longest top-level array of a request
MaxArrayLen == 5

\* COSE_Sign1 and CWT, two tag numbers cbor2 delivers as CBORTag
TagNumbers == {18, 61}

TagChains == UNION {[1..d -> TagNumbers] : d \in 0..MaxTagDepth}

RECURSIVE Wrap(_, _)
\* x inside the tags of chain, the first of them outermost
Wrap(x, chain) ==
  IF chain = <<>> THEN x ELSE PyTag(Head(chain), Wrap(x, Tail(chain)))

Dict1(k, x) == PyMap(<< <<k, x>> >>)
Dict2(k1, x1, k2, x2) == PyMap(<< <<k1, x1>>, <<k2, x2>> >>)

KeyHcert == PyInt(-260)
Key5 == PyInt(5)
TextXX == PyText(<<"X", "X">>)
TextUrl == PyText(<<"h", "t", "t", "p", ":", "/", "/", "e", "x", ".", "o", "r", "g">>)
KidBytes == PyBytes(<<203, 255>>)
Envelope(x) == Dict1(KeyB64, x)

\* first elements of the COSE array: protected header byte strings and others
ProtectedParts ==
  { PyBytes(<<>>), PyNull, PyInt(5), PyBytes(<<255>>),
    PyBytes(CborEnc(Dict1(Key4, KidBytes))),
    PyBytes(CborEnc(Dict1(Key4, PyBytes(<<>>)))),
    PyBytes(CborEnc(Dict1(Key4, Envelope(PyInt(5))))),
    PyBytes(CborEnc(PyInt(7))) }

UnprotectedParts == { EmptyDict, PyNull, Dict1(Key4, PyBytes(<<9, 8, 7>>)) }

SignatureParts == { PyBytes(<<>>), PyNull, PyBytes(<<1, 2>>), PyBytes(<<251>>), TextXX }

HcertClaim == Dict1(PyText(<<"v">>), PyInt(1))

\* values whose CBOR encoding is the third element of the COSE array
PayloadValues ==
  { Dict2(Key1, TextXX, KeyHcert, Dict1(Key1, HcertClaim)),
    Dict1(KeyHcert, Dict1(Key1, PyBytes(<<1>>))),
    Dict1(KeyHcert, Dict1(Key1, PyNull)),
    Dict1(KeyHcert, Dict1(Key1, PyTag(99, PyInt(1)))),
    Dict1(KeyHcert, Dict1(Key5, TextUrl)),
    Dict1(KeyHcert, PyInt(5)),
    Dict1(KeyHcert, PyList(<<HcertClaim, HcertClaim>>)),
    Dict1(Key1, TextXX),
    Dict1(PyText(<<"-", "2", "6", "0">>), Dict1(Key1, HcertClaim)),
    EmptyDict,
    PyInt(7), PyInt(0), TextXX, PyBool(TRUE),
    PyList(<<PyInt(1)>>), PyList(<<KeyHcert>>), PyList(<<>>),
    PyTag(99, EmptyDict) }

PayloadParts ==
  { PyBytes(CborEnc(y)) : y \in PayloadValues } \cup { PyBytes(<<>>), PyNull, PyBytes(<<24>>) }

BaseProtected == PyBytes(CborEnc(Dict1(Key4, KidBytes)))
BasePayload == PyBytes(CborEnc(Dict2(Key1, TextXX, KeyHcert, Dict1(Key1, HcertClaim))))
BaseCose == PyList(<<BaseProtected, EmptyDict, BasePayload, PyBytes(<<1, 2>>)>>)

\* an array of n elements, each of them an empty part
ArrayOfLen(n) == PyList([i \in 1..n |-> IF i = 2 THEN EmptyDict ELSE PyBytes(<<>>)])

CoseLists ==
  { PyList(<<p, u, BasePayload, s>>) :
      p \in ProtectedParts, u \in UnprotectedParts, s \in SignatureParts }
    \cup { PyList(<<BaseProtected, EmptyDict, y, PyBytes(<<1, 2>>)>>) : y \in PayloadParts }
    \cup { PyList(<<PyNull, PyNull, PyNull, PyNull>>) }

\* top-level CBOR values of the requests
TopValues ==
  CoseLists
    \cup { Wrap(x, c) : x \in {BaseCose, PyInt(7), EmptyDict, TextXX}
                              \cup {ArrayOfLen(n) : n \in 0..MaxArrayLen},
                        c \in TagChains }

HC1 == <<"H", "C", "1", ":">>

\* the QR text of a top-level value
QrOf(x) == HC1 \o b45encode(ZlibStore(CborEnc(x)))

BaseQr == QrOf(BaseCose)

Insert(s, k, c) == SubSeq(s, 1, k) \o <<c>> \o SubSeq(s, k + 1, Len(s))

\* QR texts that differ from a well-formed one in their characters
TextVariants ==
  { Insert(BaseQr, k, c) : k \in {0, 2, 4, 5, 20, Len(BaseQr)},
                           c \in {"a", "ZWSP", "LF", "NBSP", "#"} }
    \cup { HC1 \o s : s \in { <<>>, <<"a">>, <<"a", "b">>, <<"A">>, <<":", ":", ":">>,
                              <<"A", "a", "B">>, <<"B", "B", "a", "8">> } }
    \cup { <<>>, <<"H", "C", "1">>, Tail(BaseQr), <<"<", "h", "t", "m", "l", ">">>, <<"<", "!", "D", "O", "C", "T", "Y", "P", "E", " ", "h", "t", "m", "l">> \o BaseQr }
    \cup { HC1 \o b45encode(z) :
             z \in { <<1, 2, 3>>, ZlibStore(<<>>), ZlibStore(<<255>>),
                     SubSeq(ZlibStore(CborEnc(BaseCose)), 1, 20),
                     <<120, 1, 7, 0, 0, 255, 255, 0, 0, 0, 1>>,
                     <<120, 1, 1, 0, 0, 255, 255, 0, 0, 0, 2>> } }

KeyQrData == PyText(<<"q", "r", "_", "d", "a", "t", "a">>)

\* JSON bodies of POST /decode/hcert
DecodeRequests ==
  { Dict1(KeyQrData, PyText(QrOf(x))) : x \in TopValues }
    \cup { Dict1(KeyQrData, PyText(s)) : s \in TextVariants }
    \cup { PyNull, EmptyDict, Dict1(PyText(<<"x">>), PyInt(1)) }

\* values under header key 4
KidValues ==
  { PyBytes(<<>>), KidBytes, PyBytes(<<1, 2, 3>>), PyText(<<>>), PyText(<<"k">>),
    Envelope(PyText(<<"y", "_", "8">>)), Envelope(PyInt(5)), Envelope(PyBytes(<<1>>)),
    PyInt(0), PyInt(7), PyNull, PyList(<<>>), EmptyDict, PyBool(FALSE) }

ProtectedHeaders ==
  { Dict1(Key4, x) : x \in KidValues }
    \cup { Dict1(KeyStr4, x) : x \in KidValues }
    \cup { Dict2(Key4, PyBytes(<<>>), KeyStr4, PyText(<<"s">>)),
           Dict2(KeyStr4, PyText(<<"s">>), Key4, KidBytes),
           EmptyDict, Dict1(Key1, PyInt(-7)), PyInt(7) }

UnprotectedHeaders ==
  { EmptyDict, Dict1(Key4, PyBytes(<<9, 8, 7>>)), Dict1(KeyStr4, PyText(<<"u">>)),
    Dict1(Key4, PyInt(3)) }

\* arguments of extract_kid
KidRequests ==
  { [protected |-> p, unprotected |-> u] : p \in ProtectedHeaders, u \in UnprotectedHeaders }

IssuerValues ==
  { PyText(<<>>), TextXX, PyText(<<"Y">>), PyInt(0), PyInt(5), PyNull, PyBytes(<<1>>) }

Absent == [t |-> "absent", v |-> <<>>]

\* the dict holding the keys 'iss', 1 and '1' whose value is not Absent
IssuerDict(a, b, c) ==
  PyMap(SelectSeq(<< <<KeyIss, a>>, <<Key1, b>>, <<KeyStr1, c>> >>,
                  LAMBDA kv : kv[2] # Absent))

\* arguments of extract_issuer
IssuerRequests ==
  { IssuerDict(a, b, c) : a \in IssuerValues \cup {Absent},
                          b \in IssuerValues \cup {Absent},
                          c \in {TextXX, PyText(<<>>), PyInt(5), Absent} }

----------------------------------------------------------------------------
(* Reference resolver (parse_shlink_reference) *)

KeyStr5 == PyText(<<"5">>)
KeyHasReference == PyText(<<"h", "a", "s", "R", "e", "f", "e", "r", "e", "n", "c", "e">>)
KeyRaw == PyText(<<"r", "a", "w">>)
KeyUrl == PyText(<<"u", "r", "l">>)
KeyKey == PyText(<<"k", "e", "y">>)
KeyFlag == PyText(<<"f", "l", "a", "g">>)
KeyFlags == PyText(<<"f", "l", "a", "g", "s">>)
KeyExp == PyText(<<"e", "x", "p">>)
KeyError == PyText(<<"e", "r", "r", "o", "r">>)

SHLINK_PREFIX == <<"s", "h", "l", "i", "n", "k", ":", "/", "/">>
HTTP_PREFIX == <<"h", "t", "t", "p">>

\* {'hasReference': False}
NoReference == Dict1(KeyHasReference, PyBool(FALSE))

\* str(e): one token for each kind of exception
ErrorText(kind) == PyText(<<kind>>)

\* hcert.get(5) or hcert.get('5')
ReferenceEntry(hcert) == PyOr(DictGet(hcert, Key5), DictGet(hcert, KeyStr5))

\* faulty variant: flags is read from 'flags' only
ShlinkPayload_FlagsOnly(result, payload_b64) ==
  LET Fields(obj, raw) ==
        DictPut(DictPut(DictPut(DictPut(DictPut(result,
          KeyUrl, DictGet(obj, KeyUrl)),
          KeyKey, DictGet(obj, KeyKey)),
          KeyFlags, DictGet(obj, KeyFlags)),
          KeyExp, DictGet(obj, KeyExp)),
          KeyRaw, raw)
      Parsed(payload) ==
        IF ~payload.ok THEN DictPut(result, KeyError, ErrorText("ValueError"))
        ELSE IF ~IsDict(payload.v)
        THEN DictPut(result, KeyError, ErrorText("AttributeError"))
        ELSE Fields(payload.v, payload.v)
      Decoded(payload_json) ==
        IF ~payload_json.ok THEN DictPut(result, KeyError, ErrorText("ValueError"))
        ELSE Parsed(json_loads(payload_json.v))
  IN Decoded(urlsafe_b64decode(PadB64(payload_b64)))

\* faulty variant: a value that is no object is read as an object without
\* fields
ShlinkPayload_AnyJson(result, payload_b64) ==
  LET Fields(obj, raw) ==
        DictPut(DictPut(DictPut(DictPut(DictPut(result,
          KeyUrl, DictGet(obj, KeyUrl)),
          KeyKey, DictGet(obj, KeyKey)),
          KeyFlags, PyOr(DictGet(obj, KeyFlag), DictGet(obj, KeyFlags))),
          KeyExp, DictGet(obj, KeyExp)),
          KeyRaw, raw)
      Parsed(payload) ==
        IF ~payload.ok THEN DictPut(result, KeyError, ErrorText("ValueError"))
        ELSE Fields(IF IsDict(payload.v) THEN payload.v ELSE EmptyDict, payload.v)
      Decoded(payload_json) ==
        IF ~payload_json.ok THEN DictPut(result, KeyError, ErrorText("ValueError"))
        ELSE Parsed(json_loads(payload_json.v))
  IN Decoded(urlsafe_b64decode(PadB64(payload_b64)))

\* the branch of a reference that starts with 'shlink://': payload_b64 is
\* decoded and parsed, a failure leaves result with an error message.
\* Fields(obj, raw) are the assignments after json.loads, where obj and raw
\* are both the parsed payload.
ShlinkPayload(result, payload_b64) ==
  LET Fields(obj, raw) ==
        DictPut(DictPut(DictPut(DictPut(DictPut(result,
          KeyUrl, DictGet(obj, KeyUrl)),
          KeyKey, DictGet(obj, KeyKey)),
          KeyFlags, PyOr(DictGet(obj, KeyFlag), DictGet(obj, KeyFlags))),
          KeyExp, DictGet(obj, KeyExp)),
          KeyRaw, raw)
      Parsed(payload) ==
        IF ~payload.ok THEN DictPut(result, KeyError, ErrorText("ValueError"))
        ELSE IF ~IsDict(payload.v)
        THEN DictPut(result, KeyError, ErrorText("AttributeError"))
        ELSE Fields(payload.v, payload.v)
      Decoded(payload_json) ==
        IF ~payload_json.ok THEN DictPut(result, KeyError, ErrorText("ValueError"))
        ELSE Parsed(json_loads(payload_json.v))
  IN Decoded(urlsafe_b64decode(PadB64(payload_b64)))

\* the branch of a reference that starts with neither 'shlink://' nor 'http':
\* a base64url encoded URL is decoded, a failure makes the reference the url
EncodedUrl(result, ref) ==
  LET Url(decoded_url) ==
        IF StartsWith(decoded_url, HTTP_PREFIX)
        THEN DictPut(result, KeyUrl, PyText(decoded_url))
        ELSE result
      Decoded(decoded) ==
        IF ~decoded.ok \/ ~Utf8Valid(decoded.v)
        THEN DictPut(result, KeyUrl, PyText(ref))
        ELSE Url(Utf8Decode(decoded.v))
  IN Decoded(urlsafe_b64decode(PadB64(ref)))

\* the classification of the reference string ref
ClassifyReference(result, ref) ==
  IF StartsWith(ref, SHLINK_PREFIX) THEN ShlinkPayload(result, Drop(ref, 9))
  ELSE IF ~StartsWith(ref, HTTP_PREFIX) THEN EncodedUrl(result, ref)
  ELSE DictPut(result, KeyUrl, PyText(ref))

\* faulty variant: a value that is neither text nor bytes keeps the result
parse_shlink_reference_AnyType(hcert) ==
  LET Text(ref) == IF ref.t = "bytes" THEN Utf8Decode(ref.v) ELSE ref.v
      Parse(ref) ==
        IF ~Truthy(ref) THEN [raised |-> FALSE, v |-> NoReference]
        ELSE IF ref.t = "bytes" /\ ~Utf8Valid(ref.v)
        THEN [raised |-> TRUE, v |-> PyNull]
        ELSE IF ref.t \notin {"bytes", "text"}
        THEN [raised |-> FALSE, v |-> Dict2(KeyHasReference, PyBool(TRUE), KeyRaw, ref)]
        ELSE [raised |-> FALSE,
              v |-> ClassifyReference(
                      Dict2(KeyHasReference, PyBool(TRUE), KeyRaw, ref),
                      Text(ref))]
  IN Parse(ReferenceEntry(hcert))

\* faulty variant: raw is the string decoded from a byte string
parse_shlink_reference_RawDecoded(hcert) ==
  LET Text(ref) == IF ref.t = "bytes" THEN Utf8Decode(ref.v) ELSE ref.v
      Parse(ref) ==
        IF ~Truthy(ref) THEN [raised |-> FALSE, v |-> NoReference]
        ELSE IF ref.t = "bytes" /\ ~Utf8Valid(ref.v)
        THEN [raised |-> TRUE, v |-> PyNull]
        ELSE IF ref.t \notin {"bytes", "text"}
        THEN [raised |-> FALSE, v |-> NoReference]
        ELSE [raised |-> FALSE,
              v |-> ClassifyReference(
                      Dict2(KeyHasReference, PyBool(TRUE), KeyRaw, PyText(Text(ref))),
                      Text(ref))]
  IN Parse(ReferenceEntry(hcert))

\* parse_shlink_reference: [raised, v]; raised is the UnicodeDecodeError of
\* ref.decode('utf-8').  Text(ref) is ref after the decoding of a byte
\* string; raw keeps the entry as it was read.
parse_shlink_reference(hcert) ==
  LET Text(ref) == IF ref.t = "bytes" THEN Utf8Decode(ref.v) ELSE ref.v
      Parse(ref) ==
        IF ~Truthy(ref) THEN [raised |-> FALSE, v |-> NoReference]
        ELSE IF ref.t = "bytes" /\ ~Utf8Valid(ref.v)
        THEN [raised |-> TRUE, v |-> PyNull]
        ELSE IF ref.t \notin {"bytes", "text"}
        THEN [raised |-> FALSE, v |-> NoReference]
        ELSE [raised |-> FALSE,
              v |-> ClassifyReference(
                      Dict2(KeyHasReference, PyBool(TRUE), KeyRaw, ref),
                      Text(ref))]
  IN Parse(ReferenceEntry(hcert))

\* JSON texts of SHLink payloads: objects with and without the fields, with
\* 'flag' empty or missing; then values that are no objects; then a
\* truncated object
ShlinkObjects ==
  { <<"{", "DQUOTE", "u", "r", "l", "DQUOTE", ":", "DQUOTE", "h", "t", "t", "p", ":", "/", "/", "e", "x", ".", "o", "r", "g", "DQUOTE", ",", "DQUOTE", "k", "e", "y", "DQUOTE", ":", "DQUOTE", "a", "b", "c", "DQUOTE", ",", "DQUOTE", "f", "l", "a", "g", "DQUOTE", ":", "DQUOTE", "P", "DQUOTE", ",", "DQUOTE", "e", "x", "p", "DQUOTE", ":", "1", "}">>,
    <<"{", "DQUOTE", "u", "r", "l", "DQUOTE", ":", "DQUOTE", "h", "t", "t", "p", ":", "/", "/", "e", "x", ".", "o", "r", "g", "DQUOTE", ",", "DQUOTE", "f", "l", "a", "g", "DQUOTE", ":", "DQUOTE", "DQUOTE", ",", "DQUOTE", "f", "l", "a", "g", "s", "DQUOTE", ":", "DQUOTE", "U", "DQUOTE", "}">>,
    <<"{", "DQUOTE", "u", "r", "l", "DQUOTE", ":", "DQUOTE", "h", "t", "t", "p", ":", "/", "/", "e", "x", ".", "o", "r", "g", "DQUOTE", ",", "DQUOTE", "f", "l", "a", "g", "s", "DQUOTE", ":", "DQUOTE", "L", "DQUOTE", "}">>,
    <<"{", "DQUOTE", "f", "l", "a", "g", "DQUOTE", ":", "DQUOTE", "P", "DQUOTE", ",", "DQUOTE", "f", "l", "a", "g", "s", "DQUOTE", ":", "DQUOTE", "U", "DQUOTE", "}">>,
    <<"{", " ", "DQUOTE", "k", "e", "y", "DQUOTE", " ", ":", " ", "DQUOTE", "a", "b", "c", "DQUOTE", " ", "}">>,
    <<"{", "}">> }

ShlinkNonObjects == { <<"[", "1", "]">>, <<"DQUOTE", "a", "b", "c", "DQUOTE">>, <<"5">>, <<"n", "u", "l", "l">>, <<"[", "{", "DQUOTE", "u", "r", "l", "DQUOTE", ":", "DQUOTE", "x", "DQUOTE", "}", "]">> }

ShlinkBroken == { <<"{", "DQUOTE", "u", "r", "l", "DQUOTE", ":">>, <<"{", "DQUOTE", "u", "r", "l", "DQUOTE", " ", "DQUOTE", "x", "DQUOTE", "}">>, <<"{", "'", "u", "r", "l", "'", ":", "1", "}">>, <<>> }

\* the part after 'shlink://': encoded JSON texts without and with padding,
\* text with one data character, with a character outside the alphabet, with
\* a non-ASCII character, and the encoding of bytes that are not UTF-8
ShlinkRemainders ==
  { B64UrlNoPad(Utf8Encode(d)) : d \in ShlinkObjects \cup ShlinkNonObjects \cup ShlinkBroken }
    \cup { urlsafe_b64encode(Utf8Encode(d)) : d \in ShlinkObjects }
    \cup { <<"a">>, <<"e", "3", "0", "#">>, <<"e", "NBSP", "3", "0">>, B64UrlNoPad(<<255>>),
           B64UrlNoPad(<<123, 125, 255>>) }

\* reference strings of the three classes
ReferenceStrings ==
  { SHLINK_PREFIX \o r : r \in ShlinkRemainders }
    \cup { TextUrl.v, HTTP_PREFIX, <<"h", "t", "t", "p", "s", ":", "/", "/", "e", "x", ".", "o", "r", "g", "/", "s", "#", "k">>, <<"h", "t", "t", "p", "x">> }
    \cup { B64UrlNoPad(Utf8Encode(TextUrl.v)), urlsafe_b64encode(Utf8Encode(TextUrl.v)),
           B64UrlNoPad(Utf8Encode(HTTP_PREFIX)),
           <<"a", "G", "V", "s", "b", "G", "8">>, <<"A", "A", "A", "A">>, <<"a", "b", "c", "d">>, <<"a">>, <<"h", "t">>, <<"a", "#", "b">>, <<"s", "h", "l", "i", "n", "k", ":", "/", "e", "3", "0">>, <<"f", "t", "p", ":", "/", "/", "e", "x", ".", "o", "r", "g">>,
           <<"S", "h", "l", "i", "n", "k", ":", "/", "/", "e", "3", "0">>, <<"NBSP">>, <<"a", "ZWSP", "b", "c", "d">>, <<"w", "6", "k">> }

\* values of entry 5: strings, byte strings (one of them not UTF-8), empty
\* values and values of other types
ReferenceValues ==
  { PyText(r) : r \in ReferenceStrings }
    \cup { PyBytes(Utf8Encode(TextUrl.v)), PyBytes(Utf8Encode(<<"s", "h", "l", "i", "n", "k", ":", "/", "/", "e", "3", "0">>)),
           PyBytes(Utf8Encode(<<"s", "h", "l", "i", "n", "k", ":", "/", "/", "W", "z", "F", "d">>)), PyBytes(Utf8Encode(<<"a", "G", "V", "s", "b", "G", "8">>)),
           PyBytes(<<255>>), PyBytes(<<104, 116, 116, 112, 195, 169>>) }
    \cup { PyText(<<>>), PyBytes(<<>>), PyNull, PyInt(0), PyBool(FALSE),
           PyList(<<>>), EmptyDict }
    \cup { PyInt(7), PyBool(TRUE), PyList(<<TextUrl>>),
           PyList(<<Dict1(PyText(<<"u">>), TextUrl)>>), Dict1(KeyUrl, TextUrl) }

\* containers with entry 5 under the integer key, the string key, both keys
\* or none
ReferenceContainers ==
  { Dict1(k, x) : k \in {Key5, KeyStr5}, x \in ReferenceValues }
    \cup { Dict2(Key5, x, KeyStr5, y) :
             x \in {PyText(<<>>), PyNull, PyInt(7), TextUrl},
             y \in {PyText(<<>>), PyText(<<"a", "G", "V", "s", "b", "G", "8">>), PyInt(7), PyText(<<"s", "h", "l", "i", "n", "k", ":", "/", "/", "e", "3", "0">>)} }
    \cup { EmptyDict, Dict1(Key1, TextUrl), Dict1(PyText(<<"u">>), TextUrl) }

----------------------------------------------------------------------------
(* State *)

\* the handlers' local variables; answers is the history of the answers the
\* handler received from the remote server
NoLocals ==
  [qr_data |-> <<>>, hc1_data |-> <<>>, compressed_data |-> <<>>, cbor_data |-> <<>>,
   cose |-> NoCose, manifest |-> PyNull, answers |-> <<>>,
   pkg_files |-> <<>>, by_type |-> <<>>, skipped |-> <<>>, results |-> <<>>,
   errors |-> <<>>, url_sources |-> <<>>, fhir_resources |-> <<>>]

\* status 0: no HTTP response (yet); a plain function call leaves its return
\* value in body with status 0
NoResponse == [status |-> 0, error |-> "", body |-> PyNull]

Response(status, error, body) == [status |-> status, error |-> error, body |-> body]

\* jsonify({'error': code, 'details': ...}), status
ErrorResponse(status, code) == Response(status, code, PyNull)

KeyServers == PyText(<<"s", "e", "r", "v", "e", "r", "s">>)

\* the definition as the module binds it: servers is [{'url': '/'}]
OPENAPI_SPEC ==
  PyMap(<< <<PyText(<<"o", "p", "e", "n", "a", "p", "i">>), PyText(<<"3", ".", "0", ".", "3">>)>>,
           <<PyText(<<"i", "n", "f", "o">>), Dict1(PyText(<<"v", "e", "r", "s", "i", "o", "n">>), PyText(<<"1", ".", "0", ".", "0">>))>>,
           <<KeyServers, PyList(<<Dict1(KeyUrl, PyText(<<"/">>))>>)>>,
           <<PyText(<<"p", "a", "t", "h", "s">>), EmptyDict>> >>)

\* the values bound when the module is imported
ModuleValues ==
  [BASE45_ALPHABET |-> BASE45_ALPHABET, OPENAPI_SPEC |-> OPENAPI_SPEC,
   SERVICE_VERSION |-> <<"1", ".", "0", ".", "0">>]

\* the state of a request no thread has taken yet
IdleRequest ==
  [pc |-> "idle", op |-> "none", req |-> PyNull, loc |-> NoLocals, resp |-> NoResponse,
   trace |-> <<>>]

Init ==
  /\ pc = "idle"
  /\ op = "none"
  /\ req = PyNull
  /\ loc = NoLocals
  /\ resp = NoResponse
  /\ trace = <<>>
  /\ parked = IdleRequest
  /\ module_values = ModuleValues

\* a handler returns: the response is sent and the request is over
Return(r) == resp' = r /\ pc' = "done"

----------------------------------------------------------------------------
(* POST /decode/hcert, one action per stage *)

\* the body is read and qr_data taken from it; len(qr_data) raises on a number
DecodeStart(data) ==
  /\ pc = "idle"
  /\ op' = "decode_hcert"
  /\ req' = data
  /\ trace' = <<>>
  /\ IF ~Truthy(data) \/ ~HasKey(data, KeyQrData)
     THEN Return(ErrorResponse(400, "missing_qr_data")) /\ UNCHANGED loc
     ELSE IF DictGet(data, KeyQrData).t # "text"
     THEN Return(ErrorResponse(500, "decode_error")) /\ UNCHANGED loc
     ELSE /\ loc' = [loc EXCEPT !.qr_data = DictGet(data, KeyQrData).v]
          /\ pc' = "normalize"
          /\ UNCHANGED resp
  /\ RequestLocal

\* 1) Normalize
DecodeNormalize ==
  /\ pc = "normalize"
  /\ trace' = Append(trace, "normalize")
  /\ loc' = [loc EXCEPT !.qr_data = normalize_text(loc.qr_data).text]
  /\ IF \/ StartsWith(loc'.qr_data, <<"<", "!", "D", "O", "C", "T", "Y", "P", "E", " ", "h", "t", "m", "l">>)
        \/ StartsWith(loc'.qr_data, <<"<", "h", "t", "m", "l">>)
     THEN Return(ErrorResponse(400, "html_received_instead_of_hc1"))
     ELSE pc' = "prefix" /\ UNCHANGED resp
  /\ UNCHANGED <<op, req>>
  /\ RequestLocal

\* faulty variant: a missing prefix does not end the request
DecodePrefix_Continues ==
  /\ pc = "prefix"
  /\ trace' = Append(trace, "prefix")
  /\ loc' = [loc EXCEPT !.hc1_data = Drop(loc.qr_data, 4)]
  /\ pc' = "base45"
  /\ UNCHANGED <<op, req, resp>>
  /\ RequestLocal

\* 2) Require HC1: prefix, 3) strip prefix
DecodePrefix ==
  /\ pc = "prefix"
  /\ trace' = Append(trace, "prefix")
  /\ IF ~StartsWith(loc.qr_data, HC1)
     THEN Return(ErrorResponse(400, "invalid_format")) /\ UNCHANGED loc
     ELSE /\ loc' = [loc EXCEPT !.hc1_data = Drop(loc.qr_data, 4)]
          /\ pc' = "base45"
          /\ UNCHANGED resp
  /\ UNCHANGED <<op, req>>
  /\ RequestLocal

\* the text handed to base45.b45decode
Base45Input(hc1_data) == sanitize_base45(hc1_data).text

\* 4) Sanitize Base45, 5) Base45 decode
DecodeBase45 ==
  /\ pc = "base45"
  /\ trace' = Append(trace, "base45")
  /\ LET r == b45decode(Base45Input(loc.hc1_data))
     IN IF ~r.ok
        THEN Return(ErrorResponse(400, "base45_decode_failed")) /\ UNCHANGED loc
        ELSE /\ loc' = [loc EXCEPT !.compressed_data = r.v]
             /\ pc' = "zlib"
             /\ UNCHANGED resp
  /\ UNCHANGED <<op, req>>
  /\ RequestLocal

\* 6) zlib decompress
DecodeZlib ==
  /\ pc = "zlib"
  /\ trace' = Append(trace, "zlib")
  /\ LET r == zlib_decompress(loc.compressed_data)
     IN IF ~r.ok
        THEN Return(ErrorResponse(400, "zlib_decompress_failed")) /\ UNCHANGED loc
        ELSE /\ loc' = [loc EXCEPT !.cbor_data = r.v]
             /\ pc' = "cose"
             /\ UNCHANGED resp
  /\ UNCHANGED <<op, req>>
  /\ RequestLocal

\* 7) COSE_Sign1 decode
DecodeCose ==
  /\ pc = "cose"
  /\ trace' = Append(trace, "cose")
  /\ LET r == decode_cose_sign1(loc.cbor_data)
     IN IF ~r.ok
        THEN Return(ErrorResponse(400, "cose_decode_failed")) /\ UNCHANGED loc
        ELSE /\ loc' = [loc EXCEPT !.cose = r.v]
             /\ pc' = "extract"
             /\ UNCHANGED resp
  /\ UNCHANGED <<op, req>>
  /\ RequestLocal

\* '-260 in payload' and 'payload[-260]' raise: membership in a number, a
\* string or a CBORTag is a TypeError, in a byte string a ValueError, and a
\* list that holds -260 has no index -260
ExtractRaises(payload) ==
  \/ payload.t \notin {"map", "list"}
  \/ payload.t = "list" /\ \E i \in 1..Len(payload.v) : payload.v[i] = KeyHcert

\* 8) hcert = payload[-260][1], None without it
HcertOf(payload) ==
  IF payload.t = "map" /\ HasKey(payload, KeyHcert)
  THEN LET container == DictGet(payload, KeyHcert)
       IN IF IsDict(container) /\ HasKey(container, Key1)
          THEN DictGet(container, Key1)
          ELSE PyNull
  ELSE PyNull

\* 10) the JSON-safe response
DecodeResponseBody(l, payload, hcert, kid_b64) ==
  [diagnostics |-> [base45_decoded_len |-> Len(l.compressed_data),
                    zlib_decompressed_len |-> Len(l.cbor_data)],
   cose |-> [protected |-> bytes_to_json_safe(l.cose.protected),
             unprotected |-> bytes_to_json_safe(l.cose.unprotected),
             kid_b64 |-> kid_b64,
             signature |-> l.cose.signature],
   payload |-> bytes_to_json_safe(payload),
   hcert |-> IF hcert # PyNull THEN bytes_to_json_safe(hcert) ELSE PyNull]

BodySerializable(b) ==
  /\ JsonSerializable(b.cose.protected)
  /\ JsonSerializable(b.cose.unprotected)
  /\ JsonSerializable(b.cose.kid_b64)
  /\ JsonSerializable(b.cose.signature)
  /\ JsonSerializable(b.payload)
  /\ JsonSerializable(b.hcert)

\* 8) to 10), and the handler's except clause for whatever they raise
DecodeExtract ==
  /\ pc = "extract"
  /\ trace' = Append(trace, "extract")
  /\ LET payload == PyOr(loc.cose.payload, EmptyDict)
         kid_b64 == extract_kid([protected |-> loc.cose.protected,
                                 unprotected |-> loc.cose.unprotected])
         body == DecodeResponseBody(loc, payload, HcertOf(payload), kid_b64)
     IN IF ExtractRaises(payload) \/ ~BodySerializable(body)
        THEN Return(ErrorResponse(500, "decode_error"))
        ELSE Return(Response(200, "", body))
  /\ UNCHANGED <<op, req, loc>>
  /\ RequestLocal

\* the next request finds nothing of the last one
Reset ==
  /\ pc = "done"
  /\ pc' = "idle"
  /\ op' = "none"
  /\ req' = PyNull
  /\ loc' = NoLocals
  /\ resp' = NoResponse
  /\ trace' = <<>>
  /\ RequestLocal

----------------------------------------------------------------------------
(* POST /extract/reference *)

KeyU == PyText(<<"u">>)
KeyFieldHcert == PyText(<<"h", "c", "e", "r", "t">>)
KeyFieldPayload == PyText(<<"p", "a", "y", "l", "o", "a", "d">>)
KeyStr260 == PyText(<<"-", "2", "6", "0">>)

\* faulty variant: 'url' is read before 'u'
normalize_ref_UrlFirst(ref) ==
  IF ref.t = "list" /\ Len(ref.v) > 0
  THEN IF IsDict(ref.v[1])
       THEN PyOr(DictGet(ref.v[1], KeyUrl), DictGet(ref.v[1], KeyU))
       ELSE ref.v[1]
  ELSE ref

\* normalize_ref: the first element of a non-empty list, or its 'u' or 'url'
normalize_ref(ref) ==
  IF ref.t = "list" /\ Len(ref.v) > 0
  THEN IF IsDict(ref.v[1])
       THEN PyOr(DictGet(ref.v[1], KeyU), DictGet(ref.v[1], KeyUrl))
       ELSE ref.v[1]
  ELSE ref

\* ref of a container: container.get(5) or container.get('5'), normalized
ContainerRef(container) == normalize_ref(ReferenceEntry(container))

IsStrOrBytes(x) == x.t \in {"text", "bytes"}

\* payload.get(-260) or payload.get('-260')
PayloadContainer(payload) == PyOr(DictGet(payload, KeyHcert), DictGet(payload, KeyStr260))

\* jsonify(parse_shlink_reference({5: ref})), reached from the branch named
\* by from; the exception of a byte string that is not UTF-8 ends in the
\* handler's except clause
Resolved(ref, from) ==
  LET Answer(r) ==
        IF r.raised
        THEN [resp |-> Response(500, "extraction_error", PyNull), used |-> <<from>>]
        ELSE [resp |-> Response(200, "", r.v), used |-> <<from>>]
  IN Answer(parse_shlink_reference(Dict1(Key5, ref)))

\* {'hasReference': False, 'error': 'no_reference_found'}, 404
NotFound ==
  Response(404, "no_reference_found",
           Dict2(KeyHasReference, PyBool(FALSE), KeyError, ErrorText("no_reference_found")))

\* faulty variant: the payload claim is tried before the hcert
extract_reference_PayloadFirst(body) ==
  LET HcertRef(hcert) == IF IsDict(hcert) THEN ContainerRef(hcert) ELSE PyNull
      PayloadRef(payload) ==
        IF IsDict(payload) /\ IsDict(PayloadContainer(payload))
        THEN ContainerRef(PayloadContainer(payload))
        ELSE PyNull
      Handle(href, pref) ==
        IF IsStrOrBytes(href) \/ IsStrOrBytes(pref)
        THEN Resolved(IF IsStrOrBytes(pref) THEN pref ELSE href,
                      IF IsStrOrBytes(pref) THEN "payload" ELSE "hcert")
        ELSE [resp |-> NotFound, used |-> <<>>]
      Data(data) ==
        IF ~IsDict(data)
        THEN [resp |-> Response(500, "extraction_error", PyNull), used |-> <<>>]
        ELSE Handle(HcertRef(DictGet(data, KeyFieldHcert)),
                    PayloadRef(DictGet(data, KeyFieldPayload)))
  IN Data(PyOr(body, EmptyDict))

\* extract_reference on the parsed JSON body: [resp, used], used names the
\* container the reference was resolved from; data.get on a body that is no
\* object raises and ends in the except clause.  href is the normalized
\* entry of the 'hcert' field and pref that of the health-certificate claim
\* of the 'payload' field, None where the field is no dict; the handler
\* resolves href if it is a string or byte string and pref otherwise.
extract_reference(body) ==
  LET HcertRef(hcert) == IF IsDict(hcert) THEN ContainerRef(hcert) ELSE PyNull
      PayloadRef(payload) ==
        IF IsDict(payload) /\ IsDict(PayloadContainer(payload))
        THEN ContainerRef(PayloadContainer(payload))
        ELSE PyNull
      Handle(href, pref) ==
        IF IsStrOrBytes(href) \/ IsStrOrBytes(pref)
        THEN Resolved(IF IsStrOrBytes(href) THEN href ELSE pref,
                      IF IsStrOrBytes(href) THEN "hcert" ELSE "payload")
        ELSE [resp |-> NotFound, used |-> <<>>]
      Data(data) ==
        IF ~IsDict(data)
        THEN [resp |-> Response(500, "extraction_error", PyNull), used |-> <<>>]
        ELSE Handle(HcertRef(DictGet(data, KeyFieldHcert)),
                    PayloadRef(DictGet(data, KeyFieldPayload)))
  IN Data(PyOr(body, EmptyDict))

TextUrl2 == PyText(<<"h", "t", "t", "p", ":", "/", "/", "p", ".", "o", "r", "g">>)
TextShlink == PyText(<<"s", "h", "l", "i", "n", "k", ":", "/", "/", "e", "y", "J", "1", "c", "m", "w", "i", "O", "i", "J", "o", "d", "H", "R", "w", "O", "i", "8", "v", "Z", "X", "g", "u", "b", "3", "J", "n", "I", "i", "w", "i", "a", "2", "V", "5", "I", "j", "o", "i", "Y", "W", "J", "j", "I", "i", "w", "i", "Z", "m", "x", "h", "Z", "y", "I", "6", "I", "l", "A", "i", "L", "C", "J", "l", "e", "H", "A", "i", "O", "j", "F", "9">>)

\* strings a pointer wrapper holds
WrappedStrings == { TextUrl, TextShlink, PyText(<<"a", "G", "V", "s", "b", "G", "8">>), PyText(<<>>) }

\* JSON values of entry 5: strings, pointer wrappers with 'u', 'url' or both,
\* lists of other shapes, and values of other types
EntryJsonValues ==
  WrappedStrings
    \cup { PyList(<<Dict1(k, x)>>) : k \in {KeyU, KeyUrl}, x \in WrappedStrings }
    \cup { PyList(<<Dict2(KeyU, x, KeyUrl, TextUrl2)>>) : x \in WrappedStrings }
    \cup { PyList(<<Dict2(KeyUrl, TextUrl2, KeyU, TextUrl)>>),
           PyList(<<Dict1(KeyU, TextUrl), Dict1(KeyU, TextUrl2)>>),
           PyList(<<Dict1(KeyU, PyInt(7))>>), PyList(<<Dict1(KeyU, PyNull)>>),
           PyList(<<EmptyDict>>), PyList(<<>>), PyList(<<PyText(<<>>)>>),
           PyList(<<TextUrl>>), PyList(<<PyInt(7)>>),
           PyInt(7), PyNull, EmptyDict, Dict1(KeyU, TextUrl) }

\* values of the request's hcert field
HcertFields ==
  { Dict1(KeyStr5, x) : x \in EntryJsonValues }
    \cup { EmptyDict, Dict1(KeyStr1, TextUrl), Absent, PyNull, TextUrl, PyList(<<>>) }

\* values of the request's payload field
PayloadFields ==
  { Dict1(KeyStr260, Dict1(KeyStr5, x)) :
      x \in { TextUrl2, TextUrl, PyText(<<>>), PyInt(7),
              PyList(<<Dict1(KeyU, TextUrl2)>>) } }
    \cup { Dict1(KeyStr260, EmptyDict), Dict1(KeyStr260, TextUrl2), EmptyDict,
           Absent, TextUrl2 }

\* a JSON object with the fields that are not Absent
BodyOf(hcert, payload) ==
  PyMap((IF hcert = Absent THEN <<>> ELSE << <<KeyFieldHcert, hcert>> >>)
        \o (IF payload = Absent THEN <<>> ELSE << <<KeyFieldPayload, payload>> >>))

\* parsed request bodies: objects, and values that are no objects
ReferenceRequests ==
  { BodyOf(h, p) : h \in HcertFields, p \in PayloadFields }
    \cup { PyNull, PyList(<<>>), PyList(<<PyInt(1)>>), TextUrl }

----------------------------------------------------------------------------
(* POST /shlink/authorize, one action per submission method *)

KeyPin == PyText(<<"p", "i", "n">>)
KeyManifest == PyText(<<"m", "a", "n", "i", "f", "e", "s", "t">>)
KeyFiles == PyText(<<"f", "i", "l", "e", "s">>)
KeyContentType ==
  PyText(<<"c", "o", "n", "t", "e", "n", "t", "_", "t", "y", "p", "e">>)

\* an answer of the remote server to one request: raises is an exception of
\* requests (no connection, timeout), json is the outcome of response.json()
HttpAnswer(raises, status, json, text) ==
  [raises |-> raises, status |-> status, json |-> json, text |-> text]

NotJson == [ok |-> FALSE, v |-> PyNull]

AuthAnswers ==
  { HttpAnswer(TRUE, 0, NotJson, <<>>),
    HttpAnswer(FALSE, 401, [ok |-> TRUE, v |-> EmptyDict], <<"{", "}">>),
    HttpAnswer(FALSE, 200, [ok |-> TRUE, v |-> Dict1(KeyFiles, PyList(<<>>))], <<>>),
    HttpAnswer(FALSE, 200, [ok |-> TRUE, v |-> Dict1(KeyRaw, TextXX)], <<>>),
    HttpAnswer(FALSE, 200, [ok |-> TRUE, v |-> EmptyDict], <<"{", "}">>),
    HttpAnswer(FALSE, 200, [ok |-> TRUE, v |-> PyList(<<>>)], <<"[", "]">>),
    HttpAnswer(FALSE, 200, NotJson, <<"o", "k">>) }

AuthorizeRequests ==
  { PyNull, EmptyDict, Dict1(KeyUrl, TextUrl), Dict1(KeyPin, PyInt(7)),
    Dict2(KeyUrl, TextUrl, KeyPin, PyInt(7)),
    Dict2(KeyUrl, TextUrl, KeyPin, PyText(<<"0", "0">>)) }

\* the body of one 'try' around a request: manifest after the answer
ManifestAfter(manifest, answer) ==
  IF answer.raises \/ answer.status # 200 THEN manifest
  ELSE IF answer.json.ok THEN answer.json.v
  ELSE Dict2(KeyRaw, PyText(answer.text), KeyContentType, PyText(<<"t", "e", "x", "t">>))

\* the body is read and url and pin are taken from it
AuthorizeStart(data) ==
  /\ pc = "idle"
  /\ op' = "shlink_authorize"
  /\ req' = data
  /\ trace' = <<>>
  /\ IF ~Truthy(data) \/ ~HasKey(data, KeyUrl) \/ ~HasKey(data, KeyPin)
     THEN Return(ErrorResponse(400, "missing_fields")) /\ UNCHANGED loc
     ELSE /\ loc' = [loc EXCEPT !.manifest = PyNull]
          /\ pc' = "json_post"
          /\ UNCHANGED resp
  /\ RequestLocal

\* one submission method: issued with the answer of the server, unless it is
\* guarded by 'if not manifest' and manifest is truthy
AuthorizeMethod(method, guarded, next, answer) ==
  /\ pc = method
  /\ pc' = next
  /\ IF guarded /\ Truthy(loc.manifest)
     THEN UNCHANGED <<loc, trace>>
     ELSE /\ trace' = Append(trace, method)
          /\ loc' = [loc EXCEPT !.manifest = ManifestAfter(loc.manifest, answer),
                                !.answers = Append(loc.answers, answer)]
  /\ UNCHANGED <<op, req, resp>>
  /\ RequestLocal

\* Method 1: JSON POST
AuthorizeJsonPost(answer) == AuthorizeMethod("json_post", FALSE, "form_post", answer)

\* Method 2: Form POST
AuthorizeFormPost(answer) == AuthorizeMethod("form_post", TRUE, "query_get", answer)

\* Method 3: Query parameter
AuthorizeQueryGet(answer) == AuthorizeMethod("query_get", TRUE, "authorized", answer)

\* the response after the three methods
AuthorizeReturn ==
  /\ pc = "authorized"
  /\ Return(IF ~Truthy(loc.manifest) THEN ErrorResponse(400, "authorization_failed")
            ELSE IF IsDict(loc.manifest) /\ HasKey(loc.manifest, KeyRaw)
            THEN Response(200, "", loc.manifest)
            ELSE Response(200, "", Dict1(KeyManifest, loc.manifest)))
  /\ UNCHANGED <<op, req, loc, trace>>
  /\ RequestLocal

----------------------------------------------------------------------------
(* IG upload (smart-helper): _upload_ig_core, one action per file and post *)

UPLOAD_ORDER_MapsFirst ==
  <<<<"S", "t", "r", "u", "c", "t", "u", "r", "e", "M", "a", "p">>,
    <<"C", "o", "d", "e", "S", "y", "s", "t", "e", "m">>,
    <<"V", "a", "l", "u", "e", "S", "e", "t">>,
    <<"S", "t", "r", "u", "c", "t", "u", "r", "e", "D", "e", "f", "i", "n", "i", "t", "i", "o", "n">>,
    <<"C", "o", "n", "c", "e", "p", "t", "M", "a", "p">>>>

UPLOAD_ORDER ==
  <<<<"C", "o", "d", "e", "S", "y", "s", "t", "e", "m">>,
    <<"V", "a", "l", "u", "e", "S", "e", "t">>,
    <<"S", "t", "r", "u", "c", "t", "u", "r", "e", "D", "e", "f", "i", "n", "i", "t", "i", "o", "n">>,
    <<"C", "o", "n", "c", "e", "p", "t", "M", "a", "p">>,
    <<"S", "t", "r", "u", "c", "t", "u", "r", "e", "M", "a", "p">>>>

KeyResourceType == PyText(<<"r", "e", "s", "o", "u", "r", "c", "e", "T", "y", "p", "e">>)

\* str.lower() of an ASCII text
Lower(text) ==
  [i \in 1..Len(text) |->
     IF \E k \in 34..59 : ASCII[k] = text[i]
     THEN ASCII[(CHOOSE k \in 34..59 : ASCII[k] = text[i]) + 32]
     ELSE text[i]]

EndsWith(text, suffix) ==
  Len(text) >= Len(suffix)
    /\ SubSeq(text, Len(text) - Len(suffix) + 1, Len(text)) = suffix

\* a member of the package: name, isfile() and content
Member(name, isfile, data) == PyList(<<PyText(name), PyBool(isfile), PyBytes(data)>>)

\* iter_package_files: (name, data) of the regular files, in archive order
iter_package_files(pkg) ==
  LET regular == SelectSeq(pkg.v, LAMBDA m : m.v[2].v)
  IN [i \in 1..Len(regular) |-> [path |-> regular[i].v[1].v, data |-> regular[i].v[3].v]]

NotClassified == [raised |-> FALSE, rt |-> <<>>, payload |-> PyNull, fmt |-> "none"]

\* data.decode('utf-8'), else data.decode('latin-1', errors='ignore')
MapText(data) ==
  IF Utf8Valid(data) THEN Utf8Decode(data) ELSE [i \in 1..Len(data) |-> CharOf(data[i])]

\* classify_file: [raised, rt, payload, fmt], rt empty for (None, None, None);
\* doc.get on a document that is no object raises AttributeError, and the
\* membership test of a list or an object in the set of types raises
\* TypeError
classify_file(path, data) ==
  LET Json(doc) ==
        IF ~doc.ok THEN NotClassified
        ELSE IF ~IsDict(doc.v) \/ DictGet(doc.v, KeyResourceType).t \in {"list", "map"}
        THEN [NotClassified EXCEPT !.raised = TRUE]
        ELSE IF /\ DictGet(doc.v, KeyResourceType).t = "text"
                /\ \E k \in 1..Len(UPLOAD_ORDER) :
                     UPLOAD_ORDER[k] = DictGet(doc.v, KeyResourceType).v
        THEN [raised |-> FALSE, rt |-> DictGet(doc.v, KeyResourceType).v,
              payload |-> doc.v, fmt |-> "json"]
        ELSE NotClassified
      Classify(p) ==
        IF EndsWith(p, <<".", "m", "a", "p">>)
        THEN [raised |-> FALSE, rt |-> <<"S", "t", "r", "u", "c", "t", "u", "r", "e", "M", "a", "p">>,
              payload |-> PyText(MapText(data)), fmt |-> "map"]
        ELSE IF EndsWith(p, <<".", "j", "s", "o", "n">>) THEN Json(json_loads(data))
        ELSE NotClassified
  IN Classify(Lower(path))

\* by_type = {t: [] for t in UPLOAD_ORDER}
NoneByType == [k \in 1..Len(UPLOAD_ORDER) |-> <<>>]

TypeIndex(rt) == CHOOSE k \in 1..Len(UPLOAD_ORDER) : UPLOAD_ORDER[k] = rt

\* the items in the order in which the loops 'for rt in UPLOAD_ORDER: for
\* ... in by_type[rt]' reach them
UploadQueue(by_type) ==
  LET total(k) == Len(by_type[1]) + (IF k >= 2 THEN Len(by_type[2]) ELSE 0)
                    + (IF k >= 3 THEN Len(by_type[3]) ELSE 0)
                    + (IF k >= 4 THEN Len(by_type[4]) ELSE 0)
                    + (IF k >= 5 THEN Len(by_type[5]) ELSE 0)
      Pick(n, k) ==
        [by_type[k][n - (IF k = 1 THEN 0 ELSE total(k - 1))] EXCEPT !.rt = UPLOAD_ORDER[k]]
  IN [n \in 1..total(Len(UPLOAD_ORDER)) |->
        Pick(n, CHOOSE k \in 1..Len(UPLOAD_ORDER) :
                  n <= total(k) /\ (k = 1 \/ n > total(k - 1)))]

\* post_json_resource and post_map_text with the server's answer: [raised,
\* rep]; requests raises without an answer, and body.get raises on a JSON
\* answer that is truthy and no object
PostReport(item, answer) ==
  LET Report(ok, body) ==
        IF ~ok /\ ~IsDict(body) THEN [raised |-> TRUE, rep |-> PyNull]
        ELSE [raised |-> FALSE,
              rep |-> [endpoint |-> IF item.fmt = "json"
                                    THEN DictGet(item.payload, KeyResourceType).v
                                    ELSE <<"S", "t", "r", "u", "c", "t", "u", "r", "e", "M", "a", "p">>,
                       status |-> answer.status, ok |-> ok,
                       sourcePath |-> item.path, type |-> item.rt]]
  IN IF answer.raises THEN [raised |-> TRUE, rep |-> PyNull]
     ELSE Report(answer.status >= 200 /\ answer.status < 300,
                 IF answer.json.ok /\ Truthy(answer.json.v) THEN answer.json.v
                 ELSE Dict1(PyText(<<"t", "e", "x", "t">>), PyText(answer.text)))

UploadAnswers ==
  { HttpAnswer(FALSE, 201, [ok |-> TRUE, v |-> Dict1(KeyResourceType, TextXX)], <<>>),
    HttpAnswer(FALSE, 400, [ok |-> TRUE, v |-> Dict1(KeyResourceType, PyText(<<"O", "p", "e", "r", "a", "t", "i", "o", "n", "O", "u", "t", "c", "o", "m", "e">>))], <<>>),
    HttpAnswer(TRUE, 0, NotJson, <<>>) }

\* most members of a package
MaxFiles == 3

\* members of packages: a resource of each type, a map in mapping language
\* (with an upper-case name), a resource of another type, a JSON array,
\* a text that is no JSON, a text file and a directory
PackageMembers ==
  { Member(<<"c", "s", ".", "j", "s", "o", "n">>, TRUE, Utf8Encode(<<"{", "DQUOTE", "r", "e", "s", "o", "u", "r", "c", "e", "T", "y", "p", "e", "DQUOTE", ":", "DQUOTE", "C", "o", "d", "e", "S", "y", "s", "t", "e", "m", "DQUOTE", "}">>)),
    Member(<<"v", "s", ".", "j", "s", "o", "n">>, TRUE, Utf8Encode(<<"{", "DQUOTE", "r", "e", "s", "o", "u", "r", "c", "e", "T", "y", "p", "e", "DQUOTE", ":", "DQUOTE", "V", "a", "l", "u", "e", "S", "e", "t", "DQUOTE", "}">>)),
    Member(<<"s", "d", ".", "j", "s", "o", "n">>, TRUE, Utf8Encode(<<"{", "DQUOTE", "r", "e", "s", "o", "u", "r", "c", "e", "T", "y", "p", "e", "DQUOTE", ":", "DQUOTE", "S", "t", "r", "u", "c", "t", "u", "r", "e", "D", "e", "f", "i", "n", "i", "t", "i", "o", "n", "DQUOTE", "}">>)),
    Member(<<"c", "m", ".", "j", "s", "o", "n">>, TRUE, Utf8Encode(<<"{", "DQUOTE", "r", "e", "s", "o", "u", "r", "c", "e", "T", "y", "p", "e", "DQUOTE", ":", "DQUOTE", "C", "o", "n", "c", "e", "p", "t", "M", "a", "p", "DQUOTE", "}">>)),
    Member(<<"s", "m", ".", "j", "s", "o", "n">>, TRUE, Utf8Encode(<<"{", "DQUOTE", "r", "e", "s", "o", "u", "r", "c", "e", "T", "y", "p", "e", "DQUOTE", ":", "DQUOTE", "S", "t", "r", "u", "c", "t", "u", "r", "e", "M", "a", "p", "DQUOTE", "}">>)),
    Member(<<"M", ".", "M", "A", "P">>, TRUE, Utf8Encode(<<"m", "a", "p">>)),
    Member(<<"p", ".", "j", "s", "o", "n">>, TRUE, Utf8Encode(<<"{", "DQUOTE", "r", "e", "s", "o", "u", "r", "c", "e", "T", "y", "p", "e", "DQUOTE", ":", "DQUOTE", "P", "a", "t", "i", "e", "n", "t", "DQUOTE", "}">>)),
    Member(<<"l", ".", "j", "s", "o", "n">>, TRUE, Utf8Encode(<<"[", "1", "]">>)),
    Member(<<"b", ".", "j", "s", "o", "n">>, TRUE, Utf8Encode(<<"{">>)),
    Member(<<"d">>, FALSE, <<>>) }

\* packages: up to MaxFiles different members in any order; None stands for
\* a package that could not be downloaded
Packages ==
  { PyList(s) : s \in { m \in UNION { [1..n -> PackageMembers] : n \in 0..MaxFiles } :
                          \A i, j \in 1..Len(m) : i # j => m[i] # m[j] } }
    \cup { PyNull }

\* 1) Download package.tgz
UploadStart(pkg) ==
  /\ pc = "idle"
  /\ op' = "upload_ig"
  /\ req' = pkg
  /\ trace' = <<>>
  /\ IF pkg = PyNull
     THEN Return(ErrorResponse(500, "download_error")) /\ UNCHANGED loc
     ELSE /\ loc' = [loc EXCEPT !.pkg_files = iter_package_files(pkg),
                                !.by_type = NoneByType]
          /\ pc' = IF iter_package_files(pkg) = <<>> THEN "upload" ELSE "classify"
          /\ UNCHANGED resp
  /\ RequestLocal

\* 2) Extract & classify: one pass of the loop over the package files; an
\* exception of classify_file leaves the handler
UploadClassify ==
  LET Classified(path, c) ==
        IF c.raised
        THEN Return(ErrorResponse(500, "internal_server_error")) /\ UNCHANGED loc
        ELSE /\ loc' = IF c.rt = <<>>
                       THEN [loc EXCEPT !.pkg_files = Tail(loc.pkg_files),
                                        !.skipped = Append(loc.skipped, path)]
                       ELSE [loc EXCEPT !.pkg_files = Tail(loc.pkg_files),
                                        !.by_type[TypeIndex(c.rt)] =
                                          Append(@, [path |-> path, payload |-> c.payload,
                                                     fmt |-> c.fmt, rt |-> c.rt])]
             /\ pc' = IF Tail(loc.pkg_files) = <<>> THEN "upload" ELSE "classify"
             /\ UNCHANGED resp
  IN /\ pc = "classify"
     /\ loc.pkg_files # <<>>
     /\ Classified(Head(loc.pkg_files).path,
                   classify_file(Head(loc.pkg_files).path, Head(loc.pkg_files).data))
     /\ trace' = Append(trace, "classify")
     /\ UNCHANGED <<op, req>>
     /\ RequestLocal

\* 3) Upload in order: one pass of the inner loop, with the server's answer
UploadPost(answer) ==
  LET Posted(r) ==
        IF r.raised
        THEN Return(ErrorResponse(500, "internal_server_error")) /\ UNCHANGED loc
        ELSE /\ loc' = [loc EXCEPT !.results = Append(loc.results, r.rep),
                                   !.errors = IF r.rep.ok THEN loc.errors
                                              ELSE Append(loc.errors, r.rep)]
             /\ UNCHANGED <<pc, resp>>
  IN /\ pc = "upload"
     /\ Len(loc.results) < Len(UploadQueue(loc.by_type))
     /\ Posted(PostReport(UploadQueue(loc.by_type)[Len(loc.results) + 1], answer))
     /\ trace' = Append(trace, "post")
     /\ UNCHANGED <<op, req>>
     /\ RequestLocal

\* 4) Summary
UploadSummary(by_type, skipped, results, errors) ==
  [counts |-> [k \in 1..Len(UPLOAD_ORDER) |-> Len(by_type[k])],
   uploaded |-> Len(SelectSeq(results, LAMBDA r : r.ok)),
   failed |-> Len(errors),
   skippedFiles |-> skipped,
   results |-> results]

UploadReturn ==
  /\ pc = "upload"
  /\ Len(loc.results) = Len(UploadQueue(loc.by_type))
  /\ Return(Response(200, "", UploadSummary(loc.by_type, loc.skipped, loc.results, loc.errors)))
  /\ UNCHANGED <<op, req, loc, trace>>
  /\ RequestLocal

----------------------------------------------------------------------------
(* POST /shlink/fetch-fhir, one action per fetched URL *)

KeyEntries == PyText(<<"e", "n", "t", "r", "i", "e", "s">>)
KeyLinks == PyText(<<"l", "i", "n", "k", "s">>)
KeyLocation == PyText(<<"l", "o", "c", "a", "t", "i", "o", "n">>)
KeyHref == PyText(<<"h", "r", "e", "f">>)
KeyEntry == PyText(<<"e", "n", "t", "r", "y">>)
KeyData == PyText(<<"d", "a", "t", "a">>)
KeyFhirBundle == PyText(<<"f", "h", "i", "r", "B", "u", "n", "d", "l", "e">>)

\* the strings under key of the dicts of items, in order; with a second key
\* alt the string under alt where key holds no string (f.get('location'),
\* elif f.get('url'))
UrlsOf(items, key, alt) ==
  LET Url(x) ==
        IF ~IsDict(x) THEN PyNull
        ELSE IF DictGet(x, key).t = "text" THEN DictGet(x, key)
        ELSE IF DictGet(x, alt).t = "text" THEN DictGet(x, alt)
        ELSE PyNull
      urls == [i \in 1..Len(items) |-> Url(items[i])]
  IN SelectSeq(urls, LAMBDA u : u # PyNull)

\* faulty variant: links are collected before files
url_sources_LinksFirst(manifest) ==
  LET List(key) == IF DictGet(manifest, key).t = "list" THEN DictGet(manifest, key).v ELSE <<>>
  IN UrlsOf(List(KeyEntries), KeyUrl, KeyUrl)
       \o UrlsOf(List(KeyLinks), KeyHref, KeyHref)
       \o UrlsOf(List(KeyFiles), KeyLocation, KeyUrl)

\* url_sources: entries[].url, files[].(location|url), links[].href
url_sources(manifest) ==
  LET List(key) == IF DictGet(manifest, key).t = "list" THEN DictGet(manifest, key).v ELSE <<>>
  IN UrlsOf(List(KeyEntries), KeyUrl, KeyUrl)
       \o UrlsOf(List(KeyFiles), KeyLocation, KeyUrl)
       \o UrlsOf(List(KeyLinks), KeyHref, KeyHref)

\* isinstance(x, dict) and ('resourceType' in x or 'entry' in x)
LooksLikeFhir(x) == IsDict(x) /\ (HasKey(x, KeyResourceType) \/ HasKey(x, KeyEntry))

\* direct_fhir: the value of the first of the four keys the manifest holds
direct_fhir(manifest) ==
  LET keys == <<KeyFhirBundle, PyText(<<"h", "e", "a", "l", "t", "h", "C", "e", "r", "t", "i", "f", "i", "c", "a", "t", "e">>), PyText(<<"c", "e", "r", "t", "i", "f", "i", "c", "a", "t", "e">>), KeyData>>
      held == SelectSeq(keys, LAMBDA k : HasKey(manifest, k))
  IN IF held = <<>> THEN PyNull ELSE DictGet(manifest, held[1])

\* fhir_resources before the first fetch
EmbeddedResources(manifest) ==
  LET Embedded(x) ==
        IF Truthy(x) /\ LooksLikeFhir(x)
        THEN <<Dict2(KeyUrl, PyText(<<"e", "m", "b", "e", "d", "d", "e", "d">>), PyText(<<"r", "e", "s", "o", "u", "r", "c", "e">>), x)>>
        ELSE <<>>
  IN Embedded(direct_fhir(manifest))

\* the item one fetch adds: [fhir, errors], one of them empty
FetchedItem(url, answer) ==
  IF answer.raises THEN [fhir |-> <<>>, errors |-> <<PyList(<<url, PyText(<<"Error">>)>>)>>]
  ELSE IF answer.status # 200
  THEN [fhir |-> <<>>, errors |-> <<PyList(<<url, PyInt(answer.status)>>)>>]
  ELSE IF ~answer.json.ok
  THEN [fhir |-> <<Dict2(KeyUrl, url, PyText(<<"t", "e", "x", "t", "_", "p", "r", "e", "v", "i", "e", "w">>), PyText(answer.text))>>,
        errors |-> <<>>]
  ELSE IF LooksLikeFhir(answer.json.v)
  THEN [fhir |-> <<Dict2(KeyUrl, url, PyText(<<"r", "e", "s", "o", "u", "r", "c", "e">>), answer.json.v)>>, errors |-> <<>>]
  ELSE [fhir |-> <<Dict2(KeyUrl, url, KeyData, answer.json.v)>>, errors |-> <<>>]

FetchAnswers ==
  { HttpAnswer(TRUE, 0, NotJson, <<>>),
    HttpAnswer(FALSE, 404, NotJson, <<"n", "o">>),
    HttpAnswer(FALSE, 200, [ok |-> TRUE, v |-> Dict1(KeyResourceType, TextXX)], <<>>),
    HttpAnswer(FALSE, 200, [ok |-> TRUE, v |-> PyList(<<>>)], <<"[", "]">>),
    HttpAnswer(FALSE, 200, NotJson, <<"o", "k">>) }

Url1 == PyText(<<"u", "1">>)
Url2 == PyText(<<"u", "2">>)
Url3 == PyText(<<"u", "3">>)
Url4 == PyText(<<"u", "4">>)

\* manifests: the three shapes alone and together, items that are no dicts
\* or hold no string, embedded resources, and values that are no objects
Manifests ==
  { EmptyDict,
    Dict1(KeyEntries, PyList(<<Dict1(KeyUrl, Url1), PyInt(5), Dict1(KeyUrl, PyInt(7)),
                               Dict1(KeyUrl, Url1)>>)),
    Dict1(KeyFiles, PyList(<<Dict2(KeyUrl, Url2, KeyLocation, Url1), Dict1(KeyUrl, Url3),
                             PyNull, Dict1(KeyLocation, PyNull)>>)),
    Dict1(KeyLinks, PyList(<<Dict1(KeyHref, Url4), Dict1(KeyUrl, Url1)>>)),
    PyMap(<< <<KeyLinks, PyList(<<Dict1(KeyHref, Url4)>>)>>,
             <<KeyFiles, PyList(<<Dict2(KeyLocation, PyInt(1), KeyUrl, Url2)>>)>>,
             <<KeyEntries, PyList(<<Dict1(KeyUrl, Url1)>>)>> >>),
    Dict2(KeyEntries, Dict1(KeyUrl, Url1), KeyLinks, PyList(<<Dict1(KeyHref, Url4)>>)),
    Dict1(KeyFhirBundle, Dict1(KeyResourceType, TextXX)),
    Dict2(KeyFhirBundle, Dict1(KeyResourceType, TextXX),
          KeyEntries, PyList(<<Dict1(KeyUrl, Url1)>>)),
    Dict2(KeyFhirBundle, EmptyDict, KeyData, Dict1(KeyEntry, PyList(<<>>))),
    Dict1(KeyData, Dict1(KeyEntry, PyList(<<>>))),
    Dict1(KeyData, TextXX),
    PyNull, PyList(<<>>), TextXX }

FetchRequests ==
  { Dict1(KeyManifest, m) : m \in Manifests } \cup { PyNull, EmptyDict }

\* the body is read, the URLs are collected and the embedded resource is
\* looked for; manifest.get raises on a manifest that is no object
FetchStart(data) ==
  /\ pc = "idle"
  /\ op' = "shlink_fetch_fhir"
  /\ req' = data
  /\ trace' = <<>>
  /\ IF ~Truthy(data) \/ ~HasKey(data, KeyManifest)
     THEN Return(ErrorResponse(400, "missing_manifest")) /\ UNCHANGED loc
     ELSE IF ~IsDict(DictGet(data, KeyManifest))
     THEN Return(ErrorResponse(500, "fetch_error")) /\ UNCHANGED loc
     ELSE /\ loc' = [loc EXCEPT !.manifest = DictGet(data, KeyManifest),
                                !.url_sources = url_sources(DictGet(data, KeyManifest)),
                                !.fhir_resources = EmbeddedResources(DictGet(data, KeyManifest)),
                                !.errors = <<>>]
          /\ pc' = "fetch"
          /\ UNCHANGED resp
  /\ RequestLocal

\* one pass of the loop 'for url in url_sources', with the server's answer
FetchUrl(answer) ==
  LET Fetched(item) ==
        loc' = [loc EXCEPT !.fhir_resources = loc.fhir_resources \o item.fhir,
                           !.errors = loc.errors \o item.errors,
                           !.answers = Append(loc.answers, answer)]
  IN /\ pc = "fetch"
     /\ Len(trace) < Len(loc.url_sources)
     /\ Fetched(FetchedItem(loc.url_sources[Len(trace) + 1], answer))
     /\ trace' = Append(trace, loc.url_sources[Len(trace) + 1])
     /\ UNCHANGED <<pc, op, req, resp>>
     /\ RequestLocal

\* jsonify({'found': ..., 'fhir': ..., 'errors': ...})
FetchReturn ==
  /\ pc = "fetch"
  /\ Len(trace) = Len(loc.url_sources)
  /\ Return(Response(200, "",
                     PyMap(<< <<PyText(<<"f", "o", "u", "n", "d">>), PyBool(Len(loc.fhir_resources) > 0)>>,
                              <<PyText(<<"f", "h", "i", "r">>), PyList(loc.fhir_resources)>>,
                              <<PyText(<<"e", "r", "r", "o", "r", "s">>), PyList(loc.errors)>> >>)))
  /\ UNCHANGED <<op, req, loc, trace>>
  /\ RequestLocal

----------------------------------------------------------------------------
(* POST /extract/metadata, GET /openapi.json and the threads of the server *)

KeyCose == PyText(<<"c", "o", "s", "e">>)
KeyPayload == PyText(<<"p", "a", "y", "l", "o", "a", "d">>)
KeyProtected == PyText(<<"p", "r", "o", "t", "e", "c", "t", "e", "d">>)
KeyUnprotected == PyText(<<"u", "n", "p", "r", "o", "t", "e", "c", "t", "e", "d">>)
KeyKid == PyText(<<"k", "i", "d">>)
KeyIssuer == PyText(<<"i", "s", "s", "u", "e", "r">>)

\* d.get(k, default)
DictGetDefault(d, k, default) == IF HasKey(d, k) THEN DictGet(d, k) ELSE default

\* extract_metadata: the response.  An envelope under cose['protected'] is
\* decoded and loaded in the request's own cose; whatever raises is
\* answered 500 extraction_error.
extract_metadata(data) ==
  LET Failed == ErrorResponse(500, "extraction_error")
      Answer(protected, unprotected, payload) ==
        IF ~IsDict(payload) THEN Failed
        ELSE Response(200, "",
                      Dict2(KeyKid, extract_kid([protected |-> protected,
                                                 unprotected |-> unprotected]),
                            KeyIssuer, extract_issuer(payload)))
      Loaded(r, cose, payload) ==
        IF r.ok THEN Answer(r.v, DictGet(cose, KeyUnprotected), payload) ELSE Failed
      Decoded(r, cose, payload) ==
        IF r.ok THEN Loaded(cbor2_loads(PyBytes(r.v)), cose, payload) ELSE Failed
      Handle(cose, payload) ==
        IF ~IsDict(cose) THEN Failed
        ELSE IF IsDict(DictGet(cose, KeyProtected)) /\ HasKey(DictGet(cose, KeyProtected), KeyB64)
        THEN IF DictGet(DictGet(cose, KeyProtected), KeyB64).t # "text" THEN Failed
             ELSE Decoded(urlsafe_b64decode(PadB64(DictGet(DictGet(cose, KeyProtected), KeyB64).v)),
                          cose, payload)
        ELSE Answer(DictGet(cose, KeyProtected), DictGet(cose, KeyUnprotected), payload)
  IN IF ~Truthy(data) THEN ErrorResponse(400, "missing_data")
     ELSE IF ~IsDict(data) THEN Failed
     ELSE Handle(DictGetDefault(data, KeyCose, EmptyDict),
                 DictGetDefault(data, KeyPayload, EmptyDict))

\* JSON bodies of POST /extract/metadata
MetadataRequests ==
  { Dict2(KeyCose, Dict1(KeyProtected, p), KeyPayload, Dict1(KeyIss, TextXX)) :
      p \in { Envelope(PyText(B64UrlNoPad(CborEnc(Dict1(Key4, KidBytes))))),
              Envelope(PyText(B64UrlNoPad(CborEnc(PyInt(7))))),
              Envelope(PyText(<<>>)), Envelope(PyText(<<"E_ACUTE">>)), Envelope(PyInt(5)),
              Dict1(KeyStr4, PyText(<<"k">>)), PyNull } }
    \cup { Dict1(KeyCose, Dict2(KeyProtected, EmptyDict,
                                KeyUnprotected, Dict1(KeyStr4, PyText(<<"u">>)))),
           Dict1(KeyCose, PyInt(1)), Dict1(KeyPayload, PyList(<<>>)),
           Dict1(KeyPayload, Dict1(KeyStr1, TextUrl)),
           PyNull, EmptyDict, PyList(<<PyInt(1)>>) }

\* POST /extract/metadata: the whole handler
ExtractMetadata(data) ==
  /\ pc = "idle"
  /\ op' = "extract_metadata"
  /\ req' = data
  /\ Return(extract_metadata(data))
  /\ UNCHANGED <<loc, trace>>
  /\ RequestLocal

\* d[k] = x on a dict that holds k: the key keeps its place
DictSet(d, k, x) ==
  PyMap([i \in 1..Len(d.v) |-> IF d.v[i][1] = k THEN <<k, x>> ELSE d.v[i]])

\* [{'url': request.host_url.rstrip('/')}]
ServersOf(host_url) == PyList(<<Dict1(KeyUrl, PyText(rstrip(host_url, "/")))>>)

\* request.host_url
HostUrls == { <<"h", ":", "/", "a", "/">>, <<"h", ":", "/", "b", "/", "/">>, <<"/">> }

\* faulty variant: the servers are assigned in the module's own dict
Openapi_InPlace(host_url) ==
  /\ pc = "idle"
  /\ op' = "openapi"
  /\ req' = PyText(host_url)
  /\ module_values' = [module_values EXCEPT
                         !.OPENAPI_SPEC = DictSet(module_values.OPENAPI_SPEC, KeyServers,
                                                  ServersOf(host_url))]
  /\ Return(Response(200, "", module_values'.OPENAPI_SPEC))
  /\ UNCHANGED <<loc, trace, parked>>

\* GET /openapi.json: spec = dict(OPENAPI_SPEC) is a dict of its own, in
\* which the servers are assigned
Openapi(host_url) ==
  /\ pc = "idle"
  /\ op' = "openapi"
  /\ req' = PyText(host_url)
  /\ LET spec == module_values.OPENAPI_SPEC
     IN Return(Response(200, "", DictSet(spec, KeyServers, ServersOf(host_url))))
  /\ UNCHANGED <<loc, trace>>
  /\ RequestLocal

\* the server runs a thread per request: the running thread is set aside
\* between two steps of its handler and the waiting one goes on
Switch ==
  /\ parked' = [pc |-> pc, op |-> op, req |-> req, loc |-> loc, resp |-> resp,
                trace |-> trace]
  /\ pc' = parked.pc
  /\ op' = parked.op
  /\ req' = parked.req
  /\ loc' = parked.loc
  /\ resp' = parked.resp
  /\ trace' = parked.trace
  /\ UNCHANGED module_values

----------------------------------------------------------------------------
(* Calls of the claim extractors *)

CallExtractKid(cose_headers) ==
  /\ pc = "idle"
  /\ op' = "extract_kid"
  /\ req' = cose_headers
  /\ Return(Response(0, "", extract_kid(cose_headers)))
  /\ UNCHANGED <<loc, trace>>
  /\ RequestLocal

CallExtractIssuer(payload) ==
  /\ pc = "idle"
  /\ op' = "extract_issuer"
  /\ req' = payload
  /\ Return(Response(0, "", extract_issuer(payload)))
  /\ UNCHANGED <<loc, trace>>
  /\ RequestLocal

\* the _b64 envelope read back as in extract_metadata: [ok, v], not ok where
\* x is no envelope or urlsafe_b64decode raises
DecodeEnvelope(x) ==
  IF IsDict(x) /\ HasKey(x, KeyB64) /\ DictGet(x, KeyB64).t = "text"
  THEN urlsafe_b64decode(PadB64(DictGet(x, KeyB64).v))
  ELSE B64Fail

\* longest byte string given to bytes_to_json_safe on its own
MaxBytesLen == 4

\* byte strings of every length up to MaxBytesLen; 251 and 255 are encoded
\* with the characters '-' and '_'
JsonSafeBytes ==
  { PyBytes(b) : b \in UNION { [1..n -> {0, 251, 255}] : n \in 0..MaxBytesLen } }

\* deepest nesting of the values given to bytes_to_json_safe
MaxNesting == 2

RECURSIVE NestedValues(_)
\* values of the decoder nested up to depth d: scalars and byte strings, and
\* lists, maps (with an integer or a byte string as key) and tagged values
\* around them
NestedValues(d) ==
  IF d = 0
  THEN { PyNull, PyInt(7), TextXX, PyBytes(<<>>), PyBytes(<<1, 255>>) }
  ELSE LET Around(inner) ==
             inner
               \cup { PyList(<<x>>) : x \in inner }
               \cup { PyList(<<PyInt(1), x, KidBytes>>) : x \in inner }
               \cup { Dict1(Key1, x) : x \in inner }
               \cup { Dict2(KeyStr1, x, KidBytes, PyInt(0)) : x \in inner }
               \cup { PyTag(99, x) : x \in inner }
       IN Around(NestedValues(d - 1))

\* arguments of bytes_to_json_safe
JsonSafeRequests == JsonSafeBytes \cup NestedValues(MaxNesting) \cup {PyList(<<>>), EmptyDict}

\* a call of bytes_to_json_safe
CallBytesToJsonSafe(obj) ==
  /\ pc = "idle"
  /\ op' = "bytes_to_json_safe"
  /\ req' = obj
  /\ Return(Response(0, "", bytes_to_json_safe(obj)))
  /\ UNCHANGED <<loc, trace>>
  /\ RequestLocal

\* longest text given to normalize_text
MaxTextLen == 3

\* a letter that composes with the accent, a digit that does not, the
\* accent, the composed letter, and characters normalize_text removes or
\* replaces
NormalizeAlphabet == {"e", "1", "ACUTE", "E_ACUTE", "ZWSP", "ZWNJ", "NBSP", "LF"}

NormalizeTexts ==
  UNION { [1..n -> NormalizeAlphabet] : n \in 0..MaxTextLen }

\* the tuple (text_clean, removed_chars)
NormalizeResult(r) ==
  PyList(<<PyText(r.text),
           PyList([i \in 1..Len(r.removed) |->
                     Dict2(PyText(<<"char">>), PyText(<<r.removed[i].char>>),
                           PyText(<<"name">>), PyText(<<r.removed[i].name>>))])>>)

\* a call of normalize_text
CallNormalizeText(text) ==
  /\ pc = "idle"
  /\ op' = "normalize_text"
  /\ req' = PyText(text)
  /\ Return(Response(0, "", NormalizeResult(normalize_text(text))))
  /\ UNCHANGED <<loc, trace>>
  /\ RequestLocal

\* texts given to sanitize_base45: characters of the alphabet and others
SanitizeTexts == UNION { [1..n -> {"A", "1", " ", "a", "ZWSP"}] : n \in 0..MaxTextLen }

\* the tuple (clean text, invalid_chars)
SanitizeResult(r) ==
  PyList(<<PyText(r.text),
           PyList([i \in 1..Len(r.invalid) |->
                     PyMap(<< <<PyText(<<"i", "n", "d", "e", "x">>), PyInt(r.invalid[i].index)>>,
                              <<PyText(<<"c", "h", "a", "r">>), PyText(<<r.invalid[i].char>>)>>,
                              <<PyText(<<"u", "n", "i", "c", "o", "d", "e">>), PyInt(r.invalid[i].unicode)>> >>)])>>)

\* a call of sanitize_base45
CallSanitizeBase45(text) ==
  /\ pc = "idle"
  /\ op' = "sanitize_base45"
  /\ req' = PyText(text)
  /\ Return(Response(0, "", SanitizeResult(sanitize_base45(text))))
  /\ UNCHANGED <<loc, trace>>
  /\ RequestLocal

\* POST /extract/reference: the whole handler
ExtractReference(body) ==
  LET Answer(r) == Return(r.resp) /\ trace' = r.used
  IN /\ pc = "idle"
     /\ op' = "extract_reference"
     /\ req' = body
     /\ Answer(extract_reference(body))
     /\ UNCHANGED loc
     /\ RequestLocal

\* a call of parse_shlink_reference; an exception that leaves the function
\* is recorded in error
CallParseShlinkReference(hcert) ==
  LET Answer(r) ==
        Return(IF r.raised THEN Response(0, "UnicodeDecodeError", PyNull)
               ELSE Response(0, "", r.v))
  IN /\ pc = "idle"
     /\ op' = "parse_shlink_reference"
     /\ req' = hcert
     /\ Answer(parse_shlink_reference(hcert))
     /\ UNCHANGED <<loc, trace>>
     /\ RequestLocal

----------------------------------------------------------------------------

Next ==
  \/ \E data \in DecodeRequests : DecodeStart(data)
  \/ DecodeNormalize
  \/ DecodePrefix
  \/ DecodeBase45
  \/ DecodeZlib
  \/ DecodeCose
  \/ DecodeExtract
  \/ \E h \in KidRequests : CallExtractKid(h)
  \/ \E p \in IssuerRequests : CallExtractIssuer(p)
  \/ \E hcert \in ReferenceContainers : CallParseShlinkReference(hcert)
  \/ \E body \in ReferenceRequests : ExtractReference(body)
  \/ \E text \in NormalizeTexts : CallNormalizeText(text)
  \/ \E obj \in JsonSafeRequests : CallBytesToJsonSafe(obj)
  \/ \E data \in AuthorizeRequests : AuthorizeStart(data)
  \/ \E answer \in AuthAnswers : AuthorizeJsonPost(answer)
  \/ \E answer \in AuthAnswers : AuthorizeFormPost(answer)
  \/ \E answer \in AuthAnswers : AuthorizeQueryGet(answer)
  \/ AuthorizeReturn
  \/ \E pkg \in Packages : UploadStart(pkg)
  \/ UploadClassify
  \/ \E answer \in UploadAnswers : UploadPost(answer)
  \/ UploadReturn
  \/ \E data \in FetchRequests : FetchStart(data)
  \/ \E answer \in FetchAnswers : FetchUrl(answer)
  \/ FetchReturn
  \/ \E text \in SanitizeTexts : CallSanitizeBase45(text)
  \/ \E data \in MetadataRequests : ExtractMetadata(data)
  \/ \E host_url \in HostUrls : Openapi(host_url)
  \/ Reset

Spec == Init /\ [][Next]_vars

\* decode/hcert requests of the two threads: one per outcome of the stages
ConcDecodeRequests ==
  { Dict1(KeyQrData, PyText(s)) :
      s \in { BaseQr, QrOf(PyInt(7)), HC1 \o <<"a">>, HC1 \o b45encode(<<1, 2, 3>>),
              <<"H", "C", "1">>, <<"<", "h", "t", "m", "l", ">">>,
              Insert(BaseQr, 5, "ZWSP"),
              QrOf(PyList(<<BaseProtected, EmptyDict, PyBytes(CborEnc(PyInt(7))),
                            PyBytes(<<1, 2>>)>>)) } }
    \cup { PyNull }

ConcReferenceRequests ==
  { body \in ReferenceRequests : ~IsDict(body) \/ Len(body.v) <= 1 }

\* two requests at a time, their handlers' steps interleaved
ConcNext ==
  \/ \E data \in ConcDecodeRequests : DecodeStart(data)
  \/ DecodeNormalize
  \/ DecodePrefix
  \/ DecodeBase45
  \/ DecodeZlib
  \/ DecodeCose
  \/ DecodeExtract
  \/ \E data \in MetadataRequests : ExtractMetadata(data)
  \/ \E body \in ConcReferenceRequests : ExtractReference(body)
  \/ \E host_url \in HostUrls : Openapi(host_url)
  \/ Reset
  \/ Switch

ConcSpec == Init /\ [][ConcNext]_vars

----------------------------------------------------------------------------
(* Properties *)

InTrace(stage) == \E i \in 1..Len(trace) : trace[i] = stage

DecodeDone == op = "decode_hcert" /\ pc = "done"

HasInvalidChar(text) == \E i \in 1..Len(text) : ~InBase45Alphabet(text[i])

\* C1: a decode/hcert request whose text after 'HC1:' holds a character
\* outside the Base45 alphabet ends with 400 base45_decode_failed.
C1_InvalidCharFails ==
  (DecodeDone /\ InTrace("base45") /\ HasInvalidChar(loc.hc1_data))
    => resp = ErrorResponse(400, "base45_decode_failed")

StageOrder == <<"normalize", "prefix", "base45", "zlib", "cose", "extract">>

\* the stages' outcomes for the QR text qr, computed without the handler:
\* the number of the first stage that fails, 7 when none does
FirstFailure(qr) ==
  LET norm == normalize_text(qr).text
      b45 == b45decode(Base45Input(Drop(norm, 4)))
      z == zlib_decompress(b45.v)
      cose == decode_cose_sign1(z.v)
      payload == PyOr(cose.v.payload, EmptyDict)
      kid == extract_kid([protected |-> cose.v.protected,
                          unprotected |-> cose.v.unprotected])
  IN IF StartsWith(norm, <<"<", "!", "D", "O", "C", "T", "Y", "P", "E", " ", "h", "t", "m", "l">>) \/ StartsWith(norm, <<"<", "h", "t", "m", "l">>) THEN 1
     ELSE IF ~StartsWith(norm, HC1) THEN 2
     ELSE IF ~b45.ok THEN 3
     ELSE IF ~z.ok THEN 4
     ELSE IF ~cose.ok THEN 5
     ELSE IF \/ ExtractRaises(payload)
             \/ ~BodySerializable(
                   DecodeResponseBody([compressed_data |-> b45.v, cbor_data |-> z.v,
                                       cose |-> cose.v],
                                      payload, HcertOf(payload), kid))
     THEN 6
     ELSE 7

StageErrors ==
  <<{"html_received_instead_of_hc1"}, {"invalid_format"}, {"base45_decode_failed"},
    {"zlib_decompress_failed"}, {"cose_decode_failed"}, {"decode_error"}>>

RequestAccepted == op = "decode_hcert" /\ (pc # "done" \/ trace # <<>>)

\* C2: the stages run in the order normalize, prefix, base45, zlib, cose,
\* extract; the request ends at the first stage that fails, with that stage's
\* error code and no later stage run, and a success response means that every
\* stage ran and succeeded.
C2_StagesInOrder ==
  RequestAccepted =>
    LET k == FirstFailure(DictGet(req, KeyQrData).v)
    IN /\ Len(trace) <= Len(StageOrder)
       /\ trace = SubSeq(StageOrder, 1, Len(trace))
       /\ Len(trace) <= k
       /\ pc = "done" =>
            IF k <= Len(StageOrder)
            THEN /\ trace = SubSeq(StageOrder, 1, k)
                 /\ resp.error \in StageErrors[k]
                 /\ resp.status # 200
            ELSE trace = StageOrder /\ resp.status = 200 /\ resp.error = ""
       /\ pc # "done" => resp = NoResponse /\ pc = StageOrder[Len(trace) + 1]

C2_Witness ==
  /\ DecodeDone
  /\ resp.error = "zlib_decompress_failed"
  /\ trace = <<"normalize", "prefix", "base45", "zlib">>

\* C3: a decode/hcert request ends with the decode result or with status 400
\* and a stage error code, never with the generic 500 decode_error.
C3_NoGenericError ==
  DecodeDone => \/ resp.status = 200
                \/ resp.status = 400 /\ resp.error \notin {"", "decode_error"}

\* the value cbor2 loads from the decompressed bytes
LoadedTop == cbor2_loads(PyBytes(loc.cbor_data))

CoseStageRan == op = "decode_hcert" /\ InTrace("cose")

CoseStageFailed == resp = ErrorResponse(400, "cose_decode_failed")

\* C4: decode_cose_sign1 raises, and destructures nothing, whenever the value
\* left after tag unwrapping is not an array of exactly 4 elements.
C4_ShapeRequired ==
  (CoseStageRan /\ LoadedTop.ok) =>
    LET inner == unwrap_cbor_tags(LoadedTop.v)
    IN (inner.t # "list" \/ Len(inner.v) # 4)
         => CoseStageFailed /\ loc.cose = NoCose /\ pc = "done"

C4_Witness ==
  /\ CoseStageRan /\ LoadedTop.ok
  /\ unwrap_cbor_tags(LoadedTop.v).t = "list"
  /\ Len(unwrap_cbor_tags(LoadedTop.v).v) = 5
  /\ CoseStageFailed

RECURSIVE TagDepth(_)
TagDepth(x) == IF x.t = "tag" THEN 1 + TagDepth(x.v[2]) ELSE 0

IsEmptyPart(x) == x = PyNull \/ x = PyBytes(<<>>)

\* s with the '=' padding that makes its length a multiple of 4
Repad(s) ==
  s \o [i \in 1..((4 - (Len(s) % 4)) % 4) |-> "="]

\* C6: in a 4-element COSE array an empty or absent part is no error: empty
\* protected and payload byte strings give empty maps, an absent unprotected
\* map gives an empty map, an empty signature gives null, and a signature of
\* bytes gives its base64url text without '='.
C6_EmptyParts ==
  (CoseStageRan /\ LoadedTop.ok) =>
    LET inner == unwrap_cbor_tags(LoadedTop.v)
    IN (inner.t = "list" /\ Len(inner.v) = 4) =>
         /\ (IsEmptyPart(inner.v[1]) /\ IsEmptyPart(inner.v[3]) /\ IsEmptyPart(inner.v[4])
               /\ inner.v[2] \in {PyNull, EmptyDict})
              => ~CoseStageFailed
         /\ ~CoseStageFailed =>
              /\ IsEmptyPart(inner.v[1]) => loc.cose.protected = EmptyDict
              /\ IsEmptyPart(inner.v[3]) => loc.cose.payload = EmptyDict
              /\ inner.v[2] \in {PyNull, EmptyDict} => loc.cose.unprotected = EmptyDict
              /\ IsEmptyPart(inner.v[4]) => loc.cose.signature = PyNull
              /\ (inner.v[4].t = "bytes" /\ inner.v[4].v # <<>>) =>
                   /\ loc.cose.signature.t = "text"
                   /\ ~Contains(loc.cose.signature.v, "=")
                   /\ Repad(loc.cose.signature.v) = urlsafe_b64encode(inner.v[4].v)

C6_Witness ==
  /\ CoseStageRan /\ LoadedTop.ok /\ ~CoseStageFailed
  /\ unwrap_cbor_tags(LoadedTop.v) = ArrayOfLen(4)
  /\ loc.cose = [protected |-> EmptyDict, unprotected |-> EmptyDict,
                 payload |-> EmptyDict, signature |-> PyNull]

KidCallDone == op = "extract_kid" /\ pc = "done"

HasKid(hdrs) == IsDict(hdrs) /\ (HasKey(hdrs, Key4) \/ HasKey(hdrs, KeyStr4))

\* C7: when the protected headers hold key 4, in its integer or its string
\* form and whatever its value, the unprotected headers do not influence the
\* result of extract_kid.
C7_ProtectedKidWins ==
  (KidCallDone /\ HasKid(req.protected))
    => resp.body = extract_kid([protected |-> req.protected, unprotected |-> EmptyDict])

\* the KID value the lookup of extract_kid yields
KidFound(h) == PyOr(find_kid(h.protected), find_kid(h.unprotected))

\* C8: extract_kid returns unpadded base64url text for a KID of bytes, the
\* _b64 value of an envelope, a plain string itself and null for anything
\* else, so its result is always null or a text string.
C8_KidMapping ==
  KidCallDone =>
    LET kid == KidFound(req)
    IN /\ resp.body.t \in {"null", "text"}
       /\ kid.t = "bytes" =>
            /\ ~Contains(resp.body.v, "=")
            /\ Repad(resp.body.v) = urlsafe_b64encode(kid.v)
       /\ (IsDict(kid) /\ HasKey(kid, KeyB64)) => resp.body = DictGet(kid, KeyB64)
       /\ kid.t = "text" => resp.body = kid
       /\ (kid.t \notin {"bytes", "text"} /\ ~(IsDict(kid) /\ HasKey(kid, KeyB64)))
            => resp.body = PyNull

\* the value under the first of the keys 'iss', 1, '1' that payload holds
FirstIssuerKey(payload) ==
  IF HasKey(payload, KeyIss) THEN DictGet(payload, KeyIss)
  ELSE IF HasKey(payload, Key1) THEN DictGet(payload, Key1)
  ELSE DictGet(payload, KeyStr1)

\* C9: extract_issuer returns the value of the first present key among
\* 'iss', 1, '1' if it is a string and null otherwise; lower-precedence keys
\* do not influence the result.
C9_IssuerFirstPresent ==
  (op = "extract_issuer" /\ pc = "done") =>
    LET first == FirstIssuerKey(req)
    IN resp.body = IF first.t = "text" THEN first ELSE PyNull

\* C10: once the COSE structure is decoded, the response has status 200 and
\* its hcert is the projected payload[-260][1] when payload[-260] is a map
\* holding key 1, and null in every other case.
C10_HcertOrNull ==
  (DecodeDone /\ InTrace("extract")) =>
    LET payload == loc.cose.payload
        container == IF IsDict(payload) THEN DictGet(payload, KeyHcert) ELSE PyNull
    IN /\ resp.status = 200
       /\ resp.body.hcert =
            IF IsDict(container) /\ HasKey(container, Key1)
            THEN bytes_to_json_safe(DictGet(container, Key1))
            ELSE PyNull

----------------------------------------------------------------------------
(* Reference resolver properties *)

ParseDone == op = "parse_shlink_reference" /\ pc = "done"

\* a value a reference can be read from: non-empty text or bytes
Usable(x) == x.t \in {"text", "bytes"} /\ Len(x.v) > 0

\* under neither key form does the container hold a usable entry 5
NoUsableEntry(c) ==
  \A k \in {Key5, KeyStr5} : ~HasKey(c, k) \/ ~Usable(DictGet(c, k))

\* C11: when entry 5 is absent under both key forms, or empty, or neither
\* text nor bytes, parse_shlink_reference returns exactly {hasReference: false}
C11_NoReference ==
  (ParseDone /\ NoUsableEntry(req)) => resp = Response(0, "", NoReference)

\* an entry 5 that is present and not empty, but neither text nor bytes
C11_Witness ==
  /\ ParseDone
  /\ HasKey(req, Key5)
  /\ DictGet(req, Key5).t = "list"
  /\ Truthy(DictGet(req, Key5))
  /\ resp.body = NoReference

\* the container holds entry 5 under one key form and nothing else
HasSoleEntry(c) == IsDict(c) /\ Len(c.v) = 1 /\ c.v[1][1] \in {Key5, KeyStr5}

SoleEntry(c) == c.v[1][2]

\* the container's entry 5 is a non-empty string
HasString(c) == HasSoleEntry(c) /\ SoleEntry(c).t = "text" /\ Len(SoleEntry(c).v) > 0

Body(k) == DictGet(resp.body, k)

\* the JSON objects whose encoding, with or without padding, follows
\* 'shlink://' in the string ref
EncodedObjects(ref) ==
  { d \in ShlinkObjects :
      \/ ref = SHLINK_PREFIX \o B64UrlNoPad(Utf8Encode(d))
      \/ ref = SHLINK_PREFIX \o urlsafe_b64encode(Utf8Encode(d)) }

\* J.flag or else J.flags
FlagOrFlags(J) ==
  IF Truthy(DictGet(J, KeyFlag)) THEN DictGet(J, KeyFlag) ELSE DictGet(J, KeyFlags)

\* C12: for 'shlink://' followed by the base64url encoding of a JSON object
\* J the result has hasReference true, url, key and exp of J, flags from
\* J.flag or else J.flags, and raw equal to J
C12_ShlinkFields ==
  (ParseDone /\ HasString(req)) =>
    \A d \in EncodedObjects(SoleEntry(req).v) :
      LET J == json_loads(Utf8Encode(d)).v
      IN /\ resp.error = ""
         /\ Body(KeyHasReference) = PyBool(TRUE)
         /\ Body(KeyUrl) = DictGet(J, KeyUrl)
         /\ Body(KeyKey) = DictGet(J, KeyKey)
         /\ Body(KeyExp) = DictGet(J, KeyExp)
         /\ Body(KeyFlags) = FlagOrFlags(J)
         /\ Body(KeyRaw) = J
         /\ ~HasKey(resp.body, KeyError)

\* the reference {"url":"http://ex.org","key":"abc","flag":"P","exp":1}
C12_Witness ==
  /\ ParseDone
  /\ HasString(req)
  /\ EncodedObjects(SoleEntry(req).v) # {}
  /\ Body(KeyUrl) = TextUrl
  /\ Body(KeyKey) = PyText(<<"a", "b", "c">>)
  /\ Body(KeyFlags) = PyText(<<"P">>)
  /\ Body(KeyExp) = PyInt(1)

\* the remainder of a 'shlink://' string decodes and parses to a JSON object
ParsesToObject(payload_b64) ==
  LET payload_json == urlsafe_b64decode(PadB64(payload_b64))
  IN /\ payload_json.ok
     /\ json_loads(payload_json.v).ok
     /\ IsDict(json_loads(payload_json.v).v)

\* C13: for a 'shlink://' string whose remainder fails base64url decoding or
\* JSON parsing, or parses to a value that is no object, the resolver does
\* not raise: hasReference is true, error is a string, there is no url and
\* raw is the original entry value
C13_ShlinkFailure ==
  (/\ ParseDone
   /\ HasString(req)
   /\ StartsWith(SoleEntry(req).v, SHLINK_PREFIX)
   /\ ~ParsesToObject(Drop(SoleEntry(req).v, 9)))
    => /\ resp.error = ""
       /\ Body(KeyHasReference) = PyBool(TRUE)
       /\ HasKey(resp.body, KeyError)
       /\ Body(KeyError).t = "text"
       /\ ~HasKey(resp.body, KeyUrl)
       /\ Body(KeyRaw) = SoleEntry(req)

\* the remainder is the encoding of the JSON array [1]
C13_Witness ==
  /\ ParseDone
  /\ HasString(req)
  /\ SoleEntry(req).v = SHLINK_PREFIX \o B64UrlNoPad(Utf8Encode(<<"[", "1", "]">>))
  /\ HasKey(resp.body, KeyError)
  /\ Body(KeyRaw) = SoleEntry(req)

\* a non-empty string that starts with neither 'shlink://' nor 'http'
HasOtherString(c) ==
  /\ HasString(c)
  /\ ~StartsWith(SoleEntry(c).v, SHLINK_PREFIX)
  /\ ~StartsWith(SoleEntry(c).v, HTTP_PREFIX)

\* the string decodes as base64url to UTF-8 text that starts with 'http'
DecodesToHttp(ref) ==
  LET decoded == urlsafe_b64decode(PadB64(ref))
  IN /\ decoded.ok
     /\ Utf8Valid(decoded.v)
     /\ StartsWith(Utf8Decode(decoded.v), HTTP_PREFIX)

\* C14: for a non-empty string that starts with neither 'shlink://' nor
\* 'http' the result has hasReference true and always a url: the decoded text
\* when the string decodes to UTF-8 text starting with 'http', the original
\* string otherwise
C14_AlwaysUrl ==
  (ParseDone /\ HasOtherString(req)) =>
    /\ resp.error = ""
    /\ Body(KeyHasReference) = PyBool(TRUE)
    /\ HasKey(resp.body, KeyUrl)
    /\ Body(KeyUrl) =
         IF DecodesToHttp(SoleEntry(req).v)
         THEN PyText(Utf8Decode(urlsafe_b64decode(PadB64(SoleEntry(req).v)).v))
         ELSE SoleEntry(req)

\* the entry value x is (the bytes of) a 'shlink://' string whose remainder
\* parses to a JSON object
ShlinkObjectParsed(x) ==
  /\ x.t \in {"text", "bytes"}
  /\ x.t = "bytes" => Utf8Valid(x.v)
  /\ LET ref == IF x.t = "bytes" THEN Utf8Decode(x.v) ELSE x.v
     IN StartsWith(ref, SHLINK_PREFIX) /\ ParsesToObject(Drop(ref, 9))

\* C15: a string that starts with 'http' is the url verbatim, raw is the
\* string, and there is no key, flags, exp or error; and in every result with
\* hasReference true for which no shlink JSON object was parsed, raw is the
\* original entry value
C15_HttpVerbatimAndRaw ==
  /\ (ParseDone /\ HasString(req) /\ StartsWith(SoleEntry(req).v, HTTP_PREFIX)) =>
       /\ resp.error = ""
       /\ Body(KeyHasReference) = PyBool(TRUE)
       /\ Body(KeyUrl) = SoleEntry(req)
       /\ Body(KeyRaw) = SoleEntry(req)
       /\ \A k \in {KeyKey, KeyFlags, KeyExp, KeyError} : ~HasKey(resp.body, k)
  /\ (/\ ParseDone
      /\ HasSoleEntry(req)
      /\ resp.error = ""
      /\ Body(KeyHasReference) = PyBool(TRUE)
      /\ ~ShlinkObjectParsed(SoleEntry(req)))
       => Body(KeyRaw) = SoleEntry(req)

\* the URL as a string, and the URL as a byte string, whose raw stays bytes
C15_Witness ==
  /\ ParseDone
  /\ HasSoleEntry(req)
  /\ SoleEntry(req) \in {TextUrl, PyBytes(Utf8Encode(TextUrl.v))}
  /\ Body(KeyUrl) = TextUrl
  /\ Body(KeyRaw) = SoleEntry(req)

----------------------------------------------------------------------------
(* POST /extract/reference properties *)

ExtractDone == op = "extract_reference" /\ pc = "done"

\* the request is an object whose hcert is a map
HasHcertMap(b) == IsDict(b) /\ IsDict(DictGet(b, KeyFieldHcert))

\* entry 5 of the request's hcert
HcertEntry(b) == DictGet(DictGet(b, KeyFieldHcert), KeyStr5)

\* the value a pointer wrapper holds: 'u' of its first element, 'url' when
\* 'u' is missing
WrapperValue(x) ==
  IF HasKey(x.v[1], KeyU) THEN DictGet(x.v[1], KeyU) ELSE DictGet(x.v[1], KeyUrl)

\* a non-empty list whose first element is an object holding a string
IsWrapper(x) ==
  /\ x.t = "list"
  /\ Len(x.v) > 0
  /\ IsDict(x.v[1])
  /\ WrapperValue(x).t = "text"

\* the request with the bare string s as entry 5 of its hcert
BareRequest(b, s) == DictPut(b, KeyFieldHcert, Dict1(KeyStr5, s))

\* C16: when entry 5 is a pointer wrapper holding the string s, the response
\* is that of the request whose entry 5 is the bare string s; 'u' takes
\* precedence over 'url'
C16_WrapperLikeBare ==
  (ExtractDone /\ HasHcertMap(req) /\ IsWrapper(HcertEntry(req))) =>
    resp = extract_reference(BareRequest(req, WrapperValue(HcertEntry(req)))).resp

\* entry 5 of the -260 container of the request's payload; Absent when the
\* payload holds no such container
PayloadEntry(b) ==
  LET payload == DictGet(b, KeyFieldPayload)
  IN IF IsDict(payload) /\ IsDict(DictGet(payload, KeyStr260))
        /\ HasKey(DictGet(payload, KeyStr260), KeyStr5)
     THEN DictGet(DictGet(payload, KeyStr260), KeyStr5)
     ELSE Absent

\* entry 5 is a non-empty string, bare or held by a pointer wrapper
IsUsableEntry(x) ==
  \/ x.t = "text" /\ Len(x.v) > 0
  \/ IsWrapper(x) /\ Len(WrapperValue(x).v) > 0

UsableString(x) == IF x.t = "text" THEN x ELSE WrapperValue(x)

\* C17: when the hcert map has a usable entry 5 and the payload's -260
\* container has a different entry 5, the response is the resolution of the
\* hcert's entry and the payload's entry is not used
C17_HcertFirst ==
  (/\ ExtractDone
   /\ HasHcertMap(req)
   /\ IsUsableEntry(HcertEntry(req))
   /\ PayloadEntry(req) # Absent
   /\ PayloadEntry(req) # HcertEntry(req))
    => /\ resp = Response(200, "",
                          parse_shlink_reference(
                            Dict1(Key5, UsableString(HcertEntry(req)))).v)
       /\ trace = <<"hcert">>

\* hcert entry 5 is http://ex.org, the payload's is http://p.org
C17_Witness ==
  /\ ExtractDone
  /\ HasHcertMap(req)
  /\ HcertEntry(req) = TextUrl
  /\ PayloadEntry(req) = TextUrl2
  /\ Body(KeyUrl) = TextUrl

\* C18: the payload claim is used only when hcert is absent or no map:
\* whenever hcert is a map, also one without entry 5 or with an entry 5 that
\* is neither text nor bytes, the payload is not used
C18_PayloadOnlyWithoutHcert ==
  (ExtractDone /\ HasHcertMap(req)) => trace # <<"payload">>

\* the response of a request for which no reference is found
NotFoundBody ==
  Dict2(KeyHasReference, PyBool(FALSE), KeyError, ErrorText("no_reference_found"))

\* C19: the response is 404 {hasReference: false, error: no_reference_found}
\* exactly when no reference is found, and every other response that is no
\* error is 200 with hasReference true, also for an entry 5 that is an empty
\* string or a list whose first element is an empty string
C19_NotFoundOr200 ==
  (ExtractDone /\ resp.status # 500) =>
    \/ resp.status = 404 /\ resp.body = NotFoundBody
    \/ resp.status = 200 /\ Body(KeyHasReference) = PyBool(TRUE)

----------------------------------------------------------------------------
(* Text normalizer properties *)

NormalizeDone == op = "normalize_text" /\ pc = "done"

\* C20: normalize_text is idempotent: applied to the clean text it returned,
\* it returns that text unchanged and an empty removal list
C20_Idempotent ==
  NormalizeDone =>
    normalize_text(resp.body.v[1].v) = [text |-> resp.body.v[1].v, removed |-> <<>>]

IsHidden(c) == \E k \in 1..Len(hidden_chars) : hidden_chars[k] = c

\* the 'char' fields of the records normalize_text returned
RemovedChars == [i \in 1..Len(resp.body.v[2].v) |-> resp.body.v[2].v[i].v[1][2].v[1]]

\* the code points of the hidden characters of text, each once, in the order
\* of their first occurrence in text
FirstEncounters(text) ==
  LET first == SelectSeq([i \in 1..Len(text) |->
                            IF IsHidden(text[i]) /\ \A k \in 1..(i - 1) : text[k] # text[i]
                            THEN text[i] ELSE "none"],
                         LAMBDA c : c # "none")
  IN [i \in 1..Len(first) |-> HiddenRecord(first[i]).char]

\* C21: no hidden character is left in the clean text, and the removal list
\* holds one record for each hidden code point of the input, in the order
\* of first encounter in the input, and no other record
C21_RemovalReport ==
  NormalizeDone =>
    /\ \A i \in 1..Len(resp.body.v[1].v) : ~IsHidden(resp.body.v[1].v[i])
    /\ RemovedChars = FirstEncounters(req.v)

----------------------------------------------------------------------------
(* Hidden characters in the QR text *)

\* text without the hidden code points, carriage returns, line feeds and
\* tabs: a text from which text is obtained by inserting such characters
Unmasked(text) ==
  SelectSeq(text, LAMBDA c : ~IsHidden(c) /\ c \notin {"CR", "LF", "TAB"})

HasQrText == IsDict(req) /\ HasKey(req, KeyQrData) /\ DictGet(req, KeyQrData).t = "text"

\* C22: the response to a QR text is the response to the text without its
\* hidden code points, carriage returns, line feeds and tabs: the same
\* error code, or success for both
C22_HiddenCharsNoEffect ==
  (op = "decode_hcert" /\ pc = "done" /\ HasQrText) =>
    LET k == FirstFailure(Unmasked(DictGet(req, KeyQrData).v))
    IN IF k <= Len(StageOrder) THEN resp.error \in StageErrors[k]
       ELSE resp.status = 200

----------------------------------------------------------------------------
(* JSON-safe projection properties *)

JsonSafeDone == op = "bytes_to_json_safe" /\ pc = "done"

\* t is a base64url text without padding for n bytes: characters of the
\* alphabet only, as many as n bytes need
IsUnpaddedB64(t, n) ==
  /\ \A i \in 1..Len(t) : \E k \in 1..Len(B64URL_ALPHABET) : B64URL_ALPHABET[k] = t[i]
  /\ Len(t) = 4 * (n \div 3) + (IF n % 3 = 0 THEN 0 ELSE (n % 3) + 1)

\* C23: a byte string becomes {_b64: t} with t the unpadded base64url text
\* of its length, and reading the envelope back (re-padding with '=' and
\* decoding) returns the byte string
C23_RoundTrip ==
  (JsonSafeDone /\ req.t = "bytes") =>
    /\ IsDict(resp.body) /\ Len(resp.body.v) = 1 /\ HasKey(resp.body, KeyB64)
    /\ DictGet(resp.body, KeyB64).t = "text"
    /\ IsUnpaddedB64(DictGet(resp.body, KeyB64).v, Len(req.v))
    /\ DecodeEnvelope(resp.body) = [ok |-> TRUE, v |-> req.v]

C23_Witness ==
  /\ JsonSafeDone /\ req.t = "bytes" /\ Len(req.v) % 3 = 2
  /\ DictGet(resp.body, KeyB64).v = <<"_", "_", "s">>

RECURSIVE HoldsBytes(_)
\* a byte string at some position of x
HoldsBytes(x) ==
  CASE x.t = "bytes" -> TRUE
    [] x.t = "list" -> \E i \in 1..Len(x.v) : HoldsBytes(x.v[i])
    [] x.t = "map" ->
         \E i \in 1..Len(x.v) : HoldsBytes(x.v[i][1]) \/ HoldsBytes(x.v[i][2])
    [] x.t = "tag" -> HoldsBytes(x.v[2])
    [] OTHER -> FALSE

RECURSIVE EnvelopedInPlace(_, _)
\* y is x with every byte string replaced by its envelope and nothing else
\* changed
EnvelopedInPlace(x, y) ==
  CASE x.t = "bytes" -> y = Envelope(PyText(B64UrlNoPad(x.v)))
    [] x.t = "list" ->
         /\ y.t = "list" /\ Len(y.v) = Len(x.v)
         /\ \A i \in 1..Len(x.v) : EnvelopedInPlace(x.v[i], y.v[i])
    [] x.t = "map" ->
         /\ y.t = "map" /\ Len(y.v) = Len(x.v)
         /\ \A i \in 1..Len(x.v) :
              y.v[i][1] = x.v[i][1] /\ EnvelopedInPlace(x.v[i][2], y.v[i][2])
    [] x.t = "tag" ->
         y.t = "tag" /\ y.v[1] = x.v[1] /\ EnvelopedInPlace(x.v[2], y.v[2])
    [] OTHER -> y = x

\* C27: the result of bytes_to_json_safe holds no byte string at any
\* position, every byte string of the argument has become its envelope in
\* place, and the other scalars and the structure are unchanged
C27_NoBytesLeft ==
  JsonSafeDone => ~HoldsBytes(resp.body) /\ EnvelopedInPlace(req, resp.body)

----------------------------------------------------------------------------
(* Authorization properties *)

AuthMethods == <<"json_post", "form_post", "query_get">>

\* an HTTP 200 answer, whatever its body
Succeeded(answer) == ~answer.raises /\ answer.status = 200

\* C24: the methods are issued in the order JSON POST, form POST, query
\* GET; no method is issued after one that was answered 200, whatever the
\* body of that answer; and 400 authorization_failed is the answer only
\* when all three methods were issued and none was answered 200
C24_FirstSuccessStops ==
  op = "shlink_authorize" =>
    /\ Len(trace) <= Len(AuthMethods)
    /\ trace = SubSeq(AuthMethods, 1, Len(trace))
    /\ Len(loc.answers) = Len(trace)
    /\ \A i \in 1..(Len(trace) - 1) : ~Succeeded(loc.answers[i])
    /\ (pc = "done" /\ resp.error = "authorization_failed") =>
         /\ Len(trace) = Len(AuthMethods)
         /\ \A i \in 1..Len(trace) : ~Succeeded(loc.answers[i])

----------------------------------------------------------------------------
(* IG upload properties *)

\* the order of the types the upload is to follow
DependencyOrder ==
  <<<<"C", "o", "d", "e", "S", "y", "s", "t", "e", "m">>,
    <<"V", "a", "l", "u", "e", "S", "e", "t">>,
    <<"S", "t", "r", "u", "c", "t", "u", "r", "e", "D", "e", "f", "i", "n", "i", "t", "i", "o", "n">>,
    <<"C", "o", "n", "c", "e", "p", "t", "M", "a", "p">>,
    <<"S", "t", "r", "u", "c", "t", "u", "r", "e", "M", "a", "p">>>>

OrderIndex(rt) == CHOOSE k \in 1..Len(DependencyOrder) : DependencyOrder[k] = rt

\* the number of classified resources of type rt
Classified(rt) ==
  Len(SelectSeq(UploadQueue(loc.by_type), LAMBDA item : item.rt = rt))

\* the number of posts of type rt among the first n posts
PostedBefore(rt, n) ==
  Cardinality({i \in 1..n : loc.results[i].type = rt})

\* C25: no resource is posted before the last package file is classified,
\* and when a resource is posted every classified resource of each earlier
\* type of the order CodeSystem, ValueSet, StructureDefinition, ConceptMap,
\* StructureMap has been posted
C25_UploadOrder ==
  op = "upload_ig" =>
    /\ loc.results # <<>> => loc.pkg_files = <<>>
    /\ \A j \in 1..Len(loc.results) :
         \A k \in 1..(OrderIndex(loc.results[j].type) - 1) :
           PostedBefore(DependencyOrder[k], j - 1) = Classified(DependencyOrder[k])

C25_Witness ==
  /\ op = "upload_ig" /\ pc = "done" /\ resp.status = 200
  /\ Len(loc.results) = 3
  /\ req.v[1].v[1].v = <<"M", ".", "M", "A", "P">>
  /\ loc.results[3].sourcePath = <<"M", ".", "M", "A", "P">>
  /\ loc.results[1].type = DependencyOrder[2]
  /\ loc.results[2].type = DependencyOrder[4]

\* the names of the regular files of the package
RegularFiles == [i \in 1..Len(iter_package_files(req)) |-> iter_package_files(req)[i].path]

\* C30: a package that was downloaded is answered with the summary; every
\* regular file is either in skippedFiles or the source of exactly one
\* result, and uploaded + failed = number of results = sum of the counts
C30_UploadAccounting ==
  (op = "upload_ig" /\ pc = "done" /\ req # PyNull) =>
    /\ resp.status = 200
    /\ \A i \in 1..Len(RegularFiles) :
         Cardinality({j \in 1..Len(resp.body.skippedFiles) :
                        resp.body.skippedFiles[j] = RegularFiles[i]})
           + Cardinality({j \in 1..Len(resp.body.results) :
                            resp.body.results[j].sourcePath = RegularFiles[i]}) = 1
    /\ resp.body.uploaded + resp.body.failed = Len(resp.body.results)
    /\ Len(resp.body.results)
         = resp.body.counts[1] + resp.body.counts[2] + resp.body.counts[3]
             + resp.body.counts[4] + resp.body.counts[5]

----------------------------------------------------------------------------
(* Base45 sanitizer properties *)

SanitizeDone == op = "sanitize_base45" /\ pc = "done"

\* the number of characters of the alphabet among the first i of text
KeptUpTo(text, i) == Cardinality({k \in 1..i : InBase45Alphabet(text[k])})

\* C28: the filtered text holds the characters of the alphabet in their
\* order, the invalid list holds the other characters in their order, each
\* with its index (from 0) and code point, the two lengths add up to the
\* length of the input, and the list is empty iff the text is unchanged
C28_SanitizePartitions ==
  SanitizeDone =>
    LET text == req.v
        filtered == resp.body.v[1].v
        invalid == resp.body.v[2].v
    IN /\ Len(filtered) + Len(invalid) = Len(text)
       /\ \A i \in 1..Len(text) :
            IF InBase45Alphabet(text[i])
            THEN filtered[KeptUpTo(text, i)] = text[i]
            ELSE /\ invalid[i - KeptUpTo(text, i)].v[1][2] = PyInt(i - 1)
                 /\ invalid[i - KeptUpTo(text, i)].v[2][2] = PyText(<<text[i]>>)
                 /\ invalid[i - KeptUpTo(text, i)].v[3][2] = PyInt(CodePoint(text[i]))
       /\ (invalid = <<>>) <=> (filtered = text)

C28_Witness ==
  /\ SanitizeDone /\ req.v = <<"a", "A", "ZWSP">>
  /\ resp.body.v[1].v = <<"A">> /\ Len(resp.body.v[2].v) = 2

----------------------------------------------------------------------------
(* fetch-fhir properties *)

FetchAnswered == op = "shlink_fetch_fhir" /\ pc = "done" /\ resp.status = 200

\* the list under key of the request's manifest, empty where it holds none
ManifestList(key) ==
  IF DictGet(DictGet(req, KeyManifest), key).t = "list"
  THEN DictGet(DictGet(req, KeyManifest), key).v ELSE <<>>

\* the URL an item of the list under key contributes, None if it has none
CandidateUrl(x, key) ==
  IF ~IsDict(x) THEN PyNull
  ELSE IF key = KeyEntries THEN (IF DictGet(x, KeyUrl).t = "text" THEN DictGet(x, KeyUrl) ELSE PyNull)
  ELSE IF key = KeyLinks THEN (IF DictGet(x, KeyHref).t = "text" THEN DictGet(x, KeyHref) ELSE PyNull)
  ELSE IF DictGet(x, KeyLocation).t = "text" THEN DictGet(x, KeyLocation)
  ELSE IF DictGet(x, KeyUrl).t = "text" THEN DictGet(x, KeyUrl)
  ELSE PyNull

Candidates(key) ==
  SelectSeq([i \in 1..Len(ManifestList(key)) |-> CandidateUrl(ManifestList(key)[i], key)],
            LAMBDA u : u # PyNull)

\* the items of the response that name url
ItemsOf(url) ==
  Cardinality({i \in 1..Len(DictGet(resp.body, PyText(<<"f", "h", "i", "r">>)).v) :
                 DictGet(DictGet(resp.body, PyText(<<"f", "h", "i", "r">>)).v[i], KeyUrl) = url})
    + Cardinality({i \in 1..Len(DictGet(resp.body, PyText(<<"e", "r", "r", "o", "r", "s">>)).v) :
                     DictGet(resp.body, PyText(<<"e", "r", "r", "o", "r", "s">>)).v[i].v[1] = url})

\* C29: the URLs are collected in the order entries, files (location before
\* url), links; each is fetched once, in that order, whatever the earlier
\* fetches answered, and adds one item to fhir or errors, so that the two
\* lists hold as many items as there are URLs, plus one for an embedded
\* resource; found is true iff fhir is not empty
C29_FetchAccounting ==
  FetchAnswered =>
    LET urls == Candidates(KeyEntries) \o Candidates(KeyFiles) \o Candidates(KeyLinks)
        fhir == DictGet(resp.body, PyText(<<"f", "h", "i", "r">>)).v
        errors == DictGet(resp.body, PyText(<<"e", "r", "r", "o", "r", "s">>)).v
        embedded == IF Len(fhir) > 0 /\ DictGet(fhir[1], KeyUrl) = PyText(<<"e", "m", "b", "e", "d", "d", "e", "d">>) THEN 1 ELSE 0
    IN /\ trace = urls
       /\ Len(fhir) + Len(errors) = Len(urls) + embedded
       /\ \A i \in 1..Len(urls) :
            ItemsOf(urls[i]) = Cardinality({k \in 1..Len(urls) : urls[k] = urls[i]})
       /\ DictGet(resp.body, PyText(<<"f", "o", "u", "n", "d">>)) = PyBool(Len(fhir) > 0)

C29_Witness ==
  /\ FetchAnswered
  /\ trace = <<Url1, Url2, Url4>>
  /\ Len(DictGet(resp.body, PyText(<<"e", "r", "r", "o", "r", "s">>)).v) = 2
  /\ Len(DictGet(resp.body, PyText(<<"f", "h", "i", "r">>)).v) = 1
  /\ loc.answers[1].raises

----------------------------------------------------------------------------
(* Request isolation properties *)

\* the response decode/hcert gives the body data when no other request runs
DecodeAlone(data) ==
  LET AnswerBody(b45, z, cose, payload) ==
        DecodeResponseBody([compressed_data |-> b45, cbor_data |-> z, cose |-> cose],
                           payload, HcertOf(payload),
                           extract_kid([protected |-> cose.protected,
                                        unprotected |-> cose.unprotected]))
      Extracted(body, payload) ==
        IF ExtractRaises(payload) \/ ~BodySerializable(body)
        THEN ErrorResponse(500, "decode_error")
        ELSE Response(200, "", body)
      Cose(b45, z, cose) ==
        IF ~cose.ok THEN ErrorResponse(400, "cose_decode_failed")
        ELSE Extracted(AnswerBody(b45, z, cose.v, PyOr(cose.v.payload, EmptyDict)),
                       PyOr(cose.v.payload, EmptyDict))
      Zlib(b45, z) ==
        IF ~z.ok THEN ErrorResponse(400, "zlib_decompress_failed")
        ELSE Cose(b45, z.v, decode_cose_sign1(z.v))
      Base45(b45) ==
        IF ~b45.ok THEN ErrorResponse(400, "base45_decode_failed")
        ELSE Zlib(b45.v, zlib_decompress(b45.v))
      Text(norm) ==
        IF \/ StartsWith(norm, <<"<", "!", "D", "O", "C", "T", "Y", "P", "E", " ", "h", "t", "m", "l">>)
           \/ StartsWith(norm, <<"<", "h", "t", "m", "l">>)
        THEN ErrorResponse(400, "html_received_instead_of_hc1")
        ELSE IF ~StartsWith(norm, HC1) THEN ErrorResponse(400, "invalid_format")
        ELSE Base45(b45decode(Base45Input(Drop(norm, 4))))
  IN IF ~Truthy(data) \/ ~HasKey(data, KeyQrData) THEN ErrorResponse(400, "missing_qr_data")
     ELSE IF DictGet(data, KeyQrData).t # "text" THEN ErrorResponse(500, "decode_error")
     ELSE Text(normalize_text(DictGet(data, KeyQrData).v).text)

\* the response of the handler o to the request r when it runs alone
ResponseAlone(o, r) ==
  CASE o = "decode_hcert" -> DecodeAlone(r)
    [] o = "extract_metadata" -> extract_metadata(r)
    [] o = "extract_reference" -> extract_reference(r).resp
    [] o = "openapi" -> Response(200, "", DictSet(OPENAPI_SPEC, KeyServers, ServersOf(r.v)))

IsolatedOps == {"decode_hcert", "extract_metadata", "extract_reference", "openapi"}

\* C26: with two requests handled at a time and their handlers' steps
\* interleaved in any way, each of decode/hcert, extract/metadata,
\* extract/reference and openapi.json answers what it answers alone, and the
\* module's values (Base45 alphabet, OpenAPI definition, version) never change
C26_RequestIsolation ==
  /\ module_values = ModuleValues
  /\ (pc = "done" /\ op \in IsolatedOps) => resp = ResponseAlone(op, req)
  /\ (parked.pc = "done" /\ parked.op \in IsolatedOps)
       => parked.resp = ResponseAlone(parked.op, parked.req)

\* a metadata request was answered while a decode request stood between two
\* of its stages
C26_Witness ==
  /\ pc = "done" /\ op = "extract_metadata" /\ resp.status = 200
  /\ DictGet(resp.body, KeyKid) # PyNull
  /\ parked.op = "decode_hcert" /\ parked.pc = "cose"
  /\ parked.trace = <<"normalize", "prefix", "base45", "zlib">>

====
